---------------------------- MODULE Spec2Model ----------------------------
(***************************************************************************)
(* A model of the nexus-topic content pipeline:                            *)
(*   - backend/scripts/fetch_trending.py : get_all_trending_topics         *)
(*     (normalisation, CPC boosting, stable sort, greedy deduplication);   *)
(*   - backend/scripts/save_article.py   : create_slug,                    *)
(*     save_article_to_database, save_article, save_articles_index,        *)
(*     get_all_articles, save_multiple_articles;                           *)
(*   - backend/scripts/database.py       : check_slug_exists,              *)
(*     create_article, _retry_operation;                                   *)
(*   - backend/scripts/optimize_adsense.py : find_insertion_points,        *)
(*     optimize_ad_placement;                                              *)
(*   - backend/scripts/generate_content.py : _is_similar,                  *)
(*     _is_semantic_duplicate, generate_article,                           *)
(*     generate_multiple_articles;                                         *)
(*   - backend/scripts/reclassify.py     : _parse_category,                *)
(*     classify_article, classify_articles;                                *)
(*   - backend/scripts/fetch_images.py   : fetch_images_for_articles;      *)
(*   - backend/main.py                   : main;                           *)
(*   - backend/scheduled_publisher.py    : ScheduledPublisher, main.       *)
(* Text is modelled as a sequence of one-character strings, so that        *)
(* lower(), strip(), substring tests and the regular expressions of the    *)
(* code are computed character by character.  A trending item carries its  *)
(* headline as a string; Text gives the characters of that string.         *)
(***************************************************************************)
EXTENDS Integers, Sequences, FiniteSets, TLC

(***************************************************************************)
(* Bounds of the model.                                                    *)
(***************************************************************************)
\* largest number of items fetched in one run, over all sources together
MaxItems == 3
\* largest raw score of a HackerNews story / Dev.to article (points, reactions)
MaxRaw == 1
\* the same, in the runs that look at the scores only
MaxScore == 8
\* longest title given to create_slug, the example of its documentation apart
MaxTitleLen == 4
\* calls of save_article_to_database by one process
MaxSaves == 2
\* limit_per_source: the positional sources score an item limit - idx
Limit == 2
\* seconds of the clock after the first reading
MaxClock == 1
\* most paragraph-level elements of an article given to optimize_ad_placement
MaxBlocks == 4
\* most words of a text given to _is_similar, the chosen examples apart
MaxWords == 2

(***************************************************************************)
(* Characters and text helpers (Python str methods and re patterns).       *)
(***************************************************************************)
UpperChars == <<"A", "B", "C", "D", "E", "F", "G", "H", "I", "J", "K", "L", "M", "N", "O", "P", "Q", "R", "S", "T", "U", "V", "W", "X", "Y", "Z">>
LowerChars == <<"a", "b", "c", "d", "e", "f", "g", "h", "i", "j", "k", "l", "m", "n", "o", "p", "q", "r", "s", "t", "u", "v", "w", "x", "y", "z">>
DigitChars == <<"0", "1", "2", "3", "4", "5", "6", "7", "8", "9">>

Range(f) == {f[i] : i \in DOMAIN f}

\* the elements of S, written out one by one
Enumerated(S) == {x : x \in S}

AlnumLowerChars == Range(LowerChars) \cup Range(DigitChars)

\* the character class [a-z0-9]
IsAlnumLower(c) == c \in AlnumLowerChars

\* the character class \s (the ASCII white space the model's texts use)
IsSpace(c) == c \in {" ", "\t", "\n"}

\* str.lower() on one character
LowerChar(c) ==
    IF c \in Range(UpperChars)
    THEN LowerChars[CHOOSE i \in DOMAIN UpperChars : UpperChars[i] = c]
    ELSE c

\* str.lower()
Lower(s) == [i \in 1..Len(s) |-> LowerChar(s[i])]

\* str.strip(): drop leading and trailing white space
Strip(s) ==
    LET keep == {i \in 1..Len(s) : ~IsSpace(s[i])}
        lo == CHOOSE i \in keep : \A j \in keep : i <= j
        hi == CHOOSE i \in keep : \A j \in keep : j <= i
    IN  IF keep = {} THEN <<>> ELSE SubSeq(s, lo, hi)

\* Python's  a in b  on strings
IsSubstring(a, b) ==
    \E i \in 0..(Len(b) - Len(a)) : SubSeq(b, i + 1, i + Len(a)) = a

\* set(re.findall(r'[a-z0-9]+', s)): the maximal runs of [a-z0-9]
FindAllAlnum(s) ==
    LET starts == {i \in 1..Len(s) :
                      IsAlnumLower(s[i]) /\ (i = 1 \/ ~IsAlnumLower(s[i - 1]))}
        ends == {j \in 1..Len(s) :
                    IsAlnumLower(s[j]) /\ (j = Len(s) \/ ~IsAlnumLower(s[j + 1]))}
        EndOf(i) == CHOOSE j \in ends : j >= i /\ \A k \in ends : k >= i => j <= k
    IN  {SubSeq(s, i, EndOf(i)) : i \in starts}

\* len(s.split()): the number of maximal runs of non-space characters
SplitCount(s) ==
    Cardinality({i \in 1..Len(s) : ~IsSpace(s[i]) /\ (i = 1 \/ IsSpace(s[i - 1]))})

\* Python 3 round() of the non-negative rational n / d: half to even
Round(n, d) ==
    LET q == n \div d
        r == n % d
    IN  IF 2 * r < d THEN q
        ELSE IF 2 * r > d THEN q + 1
        ELSE IF q % 2 = 0 THEN q ELSE q + 1

Max2(a, b) == IF a >= b THEN a ELSE b
Min2(a, b) == IF a <= b THEN a ELSE b

(***************************************************************************)
(* fetch_trending.py: the keyword list and the texts the feeds supply.     *)
(***************************************************************************)
HIGH_CPC_KEYWORDS ==
    << <<"i", "n", "s", "u", "r", "a", "n", "c", "e">>,
       <<"m", "o", "r", "t", "g", "a", "g", "e">>,
       <<"c", "r", "e", "d", "i", "t">>,
       <<"l", "o", "a", "n">>,
       <<"b", "a", "n", "k", "i", "n", "g">>,
       <<"i", "n", "v", "e", "s", "t">>,
       <<"s", "t", "o", "c", "k">>,
       <<"c", "r", "y", "p", "t", "o">>,
       <<"b", "i", "t", "c", "o", "i", "n">>,
       <<"e", "t", "h", "e", "r", "e", "u", "m">>,
       <<"f", "i", "n", "a", "n", "c", "e">>,
       <<"t", "a", "x">>,
       <<"t", "r", "a", "d", "i", "n", "g">>,
       <<"h", "e", "d", "g", "e", " ", "f", "u", "n", "d">>,
       <<"i", "n", "t", "e", "r", "e", "s", "t", " ", "r", "a", "t", "e">>,
       <<"f", "e", "d", "e", "r", "a", "l", " ", "r", "e", "s", "e", "r", "v", "e">>,
       <<"i", "n", "f", "l", "a", "t", "i", "o", "n">>,
       <<"r", "e", "c", "e", "s", "s", "i", "o", "n">>,
       <<"e", "c", "o", "n", "o", "m", "y">>,
       <<"G", "D", "P">>,
       <<"e", "a", "r", "n", "i", "n", "g", "s">>,
       <<"l", "a", "w", "s", "u", "i", "t">>,
       <<"r", "e", "g", "u", "l", "a", "t", "i", "o", "n">>,
       <<"c", "o", "m", "p", "l", "i", "a", "n", "c", "e">>,
       <<"p", "a", "t", "e", "n", "t">>,
       <<"a", "n", "t", "i", "t", "r", "u", "s", "t">>,
       <<"c", "o", "u", "r", "t">>,
       <<"l", "e", "g", "a", "l">>,
       <<"p", "r", "i", "v", "a", "c", "y">>,
       <<"G", "D", "P", "R">>,
       <<"s", "e", "t", "t", "l", "e", "m", "e", "n", "t">>,
       <<"h", "e", "a", "l", "t", "h">>,
       <<"m", "e", "d", "i", "c", "a", "l">>,
       <<"p", "h", "a", "r", "m", "a">>,
       <<"d", "r", "u", "g">>,
       <<"F", "D", "A">>,
       <<"c", "l", "i", "n", "i", "c", "a", "l", " ", "t", "r", "i", "a", "l">>,
       <<"v", "a", "c", "c", "i", "n", "e">>,
       <<"h", "e", "a", "l", "t", "h", "c", "a", "r", "e">>,
       <<"b", "i", "o", "t", "e", "c", "h">>,
       <<"c", "a", "n", "c", "e", "r">>,
       <<"d", "i", "s", "e", "a", "s", "e">>,
       <<"t", "h", "e", "r", "a", "p", "y">>,
       <<"a", "r", "t", "i", "f", "i", "c", "i", "a", "l", " ", "i", "n", "t", "e", "l", "l", "i", "g", "e", "n", "c", "e">>,
       <<" ", "A", "I", " ">>,
       <<"m", "a", "c", "h", "i", "n", "e", " ", "l", "e", "a", "r", "n", "i", "n", "g">>,
       <<"S", "a", "a", "S">>,
       <<"c", "l", "o", "u", "d">>,
       <<"e", "n", "t", "e", "r", "p", "r", "i", "s", "e">>,
       <<"c", "y", "b", "e", "r", "s", "e", "c", "u", "r", "i", "t", "y">>,
       <<"d", "a", "t", "a", " ", "b", "r", "e", "a", "c", "h">>,
       <<"r", "a", "n", "s", "o", "m", "w", "a", "r", "e">>,
       <<"s", "t", "a", "r", "t", "u", "p">>,
       <<"v", "a", "l", "u", "a", "t", "i", "o", "n">>,
       <<"I", "P", "O">>,
       <<"a", "c", "q", "u", "i", "s", "i", "t", "i", "o", "n">>,
       <<"m", "e", "r", "g", "e", "r">>,
       <<"f", "u", "n", "d", "i", "n", "g">>,
       <<"v", "e", "n", "t", "u", "r", "e", " ", "c", "a", "p", "i", "t", "a", "l">>,
       <<"r", "e", "a", "l", " ", "e", "s", "t", "a", "t", "e">>,
       <<"h", "o", "u", "s", "i", "n", "g">>,
       <<"p", "r", "o", "p", "e", "r", "t", "y">>,
       <<"r", "e", "n", "t">>,
       <<"c", "o", "n", "s", "t", "r", "u", "c", "t", "i", "o", "n">>,
       <<"o", "i", "l">>,
       <<"e", "n", "e", "r", "g", "y">>,
       <<"s", "o", "l", "a", "r">>,
       <<"E", "V", " ">>,
       <<"e", "l", "e", "c", "t", "r", "i", "c", " ", "v", "e", "h", "i", "c", "l", "e">>,
       <<"b", "a", "t", "t", "e", "r", "y">>,
       <<"n", "u", "c", "l", "e", "a", "r">> >>

\* headlines the feeds may return
KwAI == "AI"
KwOpenAI == "OpenAI raises funding"
KwNewTaxLaw == "New Tax Law"
KwNewTaxLawLc == "new tax law"
KwTaxLawNow == "Tax law now"
KwRust == "Rust 2.0 is out"
KwGo == "Go"
KwHealth == "healthcare ai startup ipo"
KwRustCrypto == "Rust 2.0 out: crypto"
KwSolar == "Solar stock IPO"
KwCloud == "AI cloud startup funding"

\* the characters of a headline
Text(k) ==
    CASE k = KwAI -> <<"A", "I">>
      [] k = KwOpenAI -> <<"O", "p", "e", "n", "A", "I", " ", "r", "a", "i", "s", "e", "s", " ", "f", "u", "n", "d", "i", "n", "g">>
      [] k = KwNewTaxLaw -> <<"N", "e", "w", " ", "T", "a", "x", " ", "L", "a", "w">>
      [] k = KwNewTaxLawLc -> <<"n", "e", "w", " ", "t", "a", "x", " ", "l", "a", "w">>
      [] k = KwTaxLawNow -> <<"T", "a", "x", " ", "l", "a", "w", " ", "n", "o", "w">>
      [] k = KwRust -> <<"R", "u", "s", "t", " ", "2", ".", "0", " ", "i", "s", " ", "o", "u", "t">>
      [] k = KwGo -> <<"G", "o">>
      [] k = KwHealth -> <<"h", "e", "a", "l", "t", "h", "c", "a", "r", "e", " ", "a", "i", " ", "s", "t", "a", "r", "t", "u", "p", " ", "i", "p", "o">>
      [] k = KwRustCrypto -> <<"R", "u", "s", "t", " ", "2", ".", "0", " ", "o", "u", "t", ":", " ", "c", "r", "y", "p", "t", "o">>
      [] k = KwSolar -> <<"S", "o", "l", "a", "r", " ", "s", "t", "o", "c", "k", " ", "I", "P", "O">>
      [] k = KwCloud -> <<"A", "I", " ", "c", "l", "o", "u", "d", " ", "s", "t", "a", "r", "t", "u", "p", " ", "f", "u", "n", "d", "i", "n", "g">>

Headlines == {KwGo, KwAI, KwOpenAI, KwNewTaxLaw, KwTaxLawNow}

\* the headlines of the two-HackerNews-one-Google scenario
ScenarioHeadlines == Headlines \cup {KwNewTaxLawLc, KwRust, KwRustCrypto, KwHealth}

\* headlines matching 0, 1, 1, 2, 3, 4 and 5 entries of HIGH_CPC_KEYWORDS
CpcHeadlines == {KwGo, KwAI, KwNewTaxLaw, KwOpenAI, KwSolar, KwCloud, KwHealth}

VARIABLES
    pc,               \* position of get_all_trending_topics
    hn_trends,        \* the six fetched lists
    google_trends,
    devto_trends,
    ph_trends,
    rss_trends,
    newsapi_trends,
    all_trends,       \* the combined list
    unique_trends,    \* the returned list
    slug_pc,          \* position of the create_slug round trip
    title,            \* its argument
    slug,             \* create_slug(title)
    slug_again,       \* create_slug(slug)
    supabase_enabled, \* USE_SUPABASE
    active,           \* the pipeline processes that run
    articles,         \* the rows of the articles table
    trending_sources, \* the rows of the trending_sources table
    proc,             \* per process: the save_article_to_database call in progress
    calls,            \* per process: calls of save_article_to_database so far
    to_save,          \* the number of articles each process has to save
    db_log,           \* the check_slug_exists results and insert calls, in order
    env,              \* the environment variables the code reads
    files,            \* the output directory: file name -> parsed JSON content
    sa,               \* the save_article call in progress, and its result
    saved,            \* the articles save_article was called with, and its results
    loaded,           \* what get_all_articles returned
    index_calls,      \* what each save_articles_index call returned, in order
    ad,               \* the optimize_ad_placement call
    gen,              \* the generate_multiple_articles call
    ga,               \* the generate_article call
    sd,               \* the _is_semantic_duplicate call
    sim,              \* the _is_similar call
    retry,            \* the _retry_operation call
    main,             \* main.py: position, steps run, exit status
    sm,               \* the save_multiple_articles call
    img,              \* the fetch_images_for_articles call
    cls,              \* the classify_articles call
    sched             \* scheduled_publisher.py: the publisher, its job and the clock

slugVars == <<slug_pc, title, slug, slug_again>>

dbVars == <<supabase_enabled, active, articles, trending_sources, proc, calls,
           to_save, db_log>>

trendVars == <<pc, hn_trends, google_trends, devto_trends, ph_trends,
               rss_trends, newsapi_trends, all_trends, unique_trends>>

fileVars == <<env, files, sa, saved, loaded, index_calls>>

genVars == <<gen, ga, sd, sim>>

\* the variables of the stages after trend fetching, slugs and the database
restVars == <<fileVars, ad, genVars, retry, main, sm, img, cls, sched>>

\* the variables of save_multiple_articles, the image step, the
\* classification step and the scheduler
lateVars == <<sm, img, cls, sched>>

earlyVars == <<fileVars, ad, genVars, retry, main>>

\* A trending item.  uid stands for the identity of the Python dict: it is
\* 0 until the item is put into all_trends and its place there afterwards.
TrendItems(src, kws, scores) ==
    [keyword : kws, source : {src}, score : scores, cpc_boost : {FALSE}, uid : {0}]

\* fetch_hackernews_top / fetch_devto_trending: n items, each with the
\* points or reactions the API reports (story.get('score', 0))
ScoredLists(src, kws, top, n) == [1..n -> TrendItems(src, kws, 0..top)]

\* the feeds scored by position: the item at index idx scores limit - idx
PositionalLists(src, kws, n) ==
    {[i \in 1..n |-> [keyword |-> k[i], source |-> src, score |-> Limit - (i - 1),
                      cpc_boost |-> FALSE, uid |-> 0]] : k \in [1..n -> kws]}

\* fetch_google_trends keeps a title only if len(keyword.split()) >= 3
GoogleKeywords(kws) == {k \in kws : SplitCount(Text(k)) >= 3}

SeqMax(s) == CHOOSE m \in Range(s) : \A x \in Range(s) : x <= m

\* Normalize dividing by the first score instead of the largest
NormalizeByFirst(trends) ==
    IF trends = <<>> THEN trends
    ELSE LET max_score == IF trends[1].score = 0 THEN 1 ELSE trends[1].score
         IN  [i \in 1..Len(trends) |->
                 [trends[i] EXCEPT !.score = Round(@ * 100, max_score)]]

\* _normalize: rescale one source's scores to 0..100 by its own maximum
Normalize(trends) ==
    IF trends = <<>> THEN trends
    ELSE LET scores == [i \in 1..Len(trends) |-> trends[i].score]
             max_score == IF SeqMax(scores) = 0 THEN 1 ELSE SeqMax(scores)
         IN  [i \in 1..Len(trends) |->
                 [trends[i] EXCEPT !.score = Round(@ * 100, max_score)]]

\* Combined with the Google Trends items put first
CombinedGoogleFirst(hn, google, devto, producthunt, rss, newsapi) ==
    LET all == google \o hn \o devto \o producthunt \o rss \o newsapi
    IN  [i \in 1..Len(all) |-> [all[i] EXCEPT !.uid = i]]

\* all_trends.extend(...) six times
Combined(hn, google, devto, producthunt, rss, newsapi) ==
    LET all == hn \o google \o devto \o producthunt \o rss \o newsapi
    IN  [i \in 1..Len(all) |-> [all[i] EXCEPT !.uid = i]]

\* cpc_matches = sum(1 for kw in HIGH_CPC_KEYWORDS if kw.lower().strip() in keyword_lower)
cpc_matches(keyword_lower) ==
    Cardinality({i \in DOMAIN HIGH_CPC_KEYWORDS :
                    IsSubstring(Strip(Lower(HIGH_CPC_KEYWORDS[i])), keyword_lower)})

\* every headline of the model
KnownHeadlines == Headlines \cup CpcHeadlines \cup ScenarioHeadlines

\* cpc_matches of every headline, computed once
CpcMatchTable == {<<k, cpc_matches(Lower(Text(k)))>> : k \in KnownHeadlines}

CpcMatchesOf(keyword) == (CHOOSE p \in CpcMatchTable : p[1] = keyword)[2]

\* Multiplier2 without the cap at 3.0
Multiplier2Uncapped(k) == 2 + k

\* twice the multiplier min(1.0 + 0.5 * cpc_matches, 3.0)
Multiplier2(k) == Min2(2 + k, 6)

\* the body of the boosting loop, for one trend
BoostTrend(trend) ==
    LET k == CpcMatchesOf(trend.keyword)
    IN  IF k > 0
        THEN [trend EXCEPT !.score = Max2(Round(@ * Multiplier2(k), 2), 50),
                           !.cpc_boost = TRUE]
        ELSE trend

\* for trend in all_trends: ...
BoostEach(trends) == [i \in 1..Len(trends) |-> BoostTrend(trends[i])]

\* InsertDesc putting x before the elements of equal score
InsertDescUnstable(sorted, x) ==
    LET n == Cardinality({i \in 1..Len(sorted) : sorted[i].score > x.score})
    IN  SubSeq(sorted, 1, n) \o <<x>> \o SubSeq(sorted, n + 1, Len(sorted))

\* one step of a stable descending sort: x goes after every element whose
\* score is at least its own
InsertDesc(sorted, x) ==
    LET n == Cardinality({i \in 1..Len(sorted) : sorted[i].score >= x.score})
    IN  SubSeq(sorted, 1, n) \o <<x>> \o SubSeq(sorted, n + 1, Len(sorted))

RECURSIVE SortByScoreDesc(_)
\* all_trends.sort(key=lambda x: x['score'], reverse=True)
SortByScoreDesc(s) ==
    IF s = <<>> THEN <<>>
    ELSE InsertDesc(SortByScoreDesc(SubSeq(s, 1, Len(s) - 1)), s[Len(s)])

\* words of more than 2 characters
SignificantWords(s) == {w \in FindAllAlnum(s) : Len(w) > 2}

\* IsDup without its word-overlap test
IsDupNoOverlap(keyword_lower, existing_lower) ==
    \/ keyword_lower = existing_lower
    \/ IsSubstring(keyword_lower, existing_lower)
    \/ IsSubstring(existing_lower, keyword_lower)

\* IsDup with the overlap compared to 0 instead of 0.5
IsDupAnyOverlap(keyword_lower, existing_lower) ==
    \/ keyword_lower = existing_lower
    \/ IsSubstring(keyword_lower, existing_lower)
    \/ IsSubstring(existing_lower, keyword_lower)
    \/ SignificantWords(keyword_lower) # {} /\ SignificantWords(existing_lower) # {}

\* the three tests of the inner loop of the deduplication
IsDup(keyword_lower, existing_lower) ==
    \/ keyword_lower = existing_lower
    \/ IsSubstring(keyword_lower, existing_lower)
    \/ IsSubstring(existing_lower, keyword_lower)
    \/ LET words_a == SignificantWords(keyword_lower)
           words_b == SignificantWords(existing_lower)
       IN  /\ words_a # {}
           /\ words_b # {}
           /\ 2 * Cardinality(words_a \cap words_b) >= Cardinality(words_a \cup words_b)

\* the pairs of headlines the inner loop finds to be duplicates, computed once
DupTable ==
    Enumerated({p \in KnownHeadlines \X KnownHeadlines :
                   IsDup(Lower(Text(p[1])), Lower(Text(p[2])))})

RECURSIVE DedupKeepLast(_, _)
\* Dedup keeping the later of two duplicates in place of the earlier
DedupKeepLast(rest, unique) ==
    IF rest = <<>> THEN unique
    ELSE LET trend == Head(rest)
             dups == {i \in 1..Len(unique) : <<trend.keyword, unique[i].keyword>> \in DupTable}
             first == CHOOSE i \in dups : \A j \in dups : i <= j
         IN  DedupKeepLast(Tail(rest),
                           IF dups # {} THEN [unique EXCEPT ![first] = trend]
                           ELSE Append(unique, trend))

RECURSIVE Dedup(_, _)
\* the outer loop: keep a trend unless it duplicates one already kept
Dedup(rest, unique) ==
    IF rest = <<>> THEN unique
    ELSE LET trend == Head(rest)
             is_dup == \E i \in 1..Len(unique) :
                          <<trend.keyword, unique[i].keyword>> \in DupTable
         IN  Dedup(Tail(rest), IF is_dup THEN unique ELSE Append(unique, trend))


(***************************************************************************)
(* save_article.py: create_slug.                                           *)
(***************************************************************************)
\* re.sub(pattern+, repl, s) for a one-character class: every maximal run of
\* characters of the class becomes one repl
SubRuns(s, class, repl) ==
    LET marked == [i \in 1..Len(s) |->
                      IF s[i] \in class
                      THEN IF i > 1 /\ s[i - 1] \in class THEN "" ELSE repl
                      ELSE s[i]]
        Kept(c) == c # ""
    IN  SelectSeq(marked, Kept)

\* re.sub(r'[^a-z0-9\s-]', '', s)
RemoveSpecial(s) ==
    LET Allowed(c) == IsAlnumLower(c) \/ IsSpace(c) \/ c = "-"
    IN  SelectSeq(s, Allowed)

\* StripHyphens that strips nothing
KeepHyphens(s) == s

\* str.strip('-')
StripHyphens(s) ==
    LET keep == {i \in 1..Len(s) : s[i] # "-"}
        lo == CHOOSE i \in keep : \A j \in keep : i <= j
        hi == CHOOSE i \in keep : \A j \in keep : j <= i
    IN  IF keep = {} THEN <<>> ELSE SubSeq(s, lo, hi)

create_slug(t) ==
    StripHyphens(SubRuns(SubRuns(RemoveSpecial(Lower(t)), {" ", "\t", "\n"}, "-"), {"-"}, "-"))

(***************************************************************************)
(* database.py and save_article.py: save_article_to_database.              *)
(***************************************************************************)
\* DatabaseClient.max_retries
max_retries == 3

\* what one request to the database can do: answer, answer with an API
\* error (retried by _retry_operation), or fail with another exception
Outcomes == {"ok", "api_error", "error"}

\* check_slug: the rows select('id').eq('slug', slug) returns
SelectBySlug(rows, s) == {i \in 1..Len(rows) : rows[i].slug = s}

\* exists = len(result.data) > 0
SlugExists(rows, s) == SelectBySlug(rows, s) # {}

\* AfterCheck going on to the insert whatever the check found
AfterCheckAlwaysInsert(exists) == "insert"

\* if db.check_slug_exists(slug): return False  -- else go on to create_article
AfterCheck(exists) == IF exists THEN "return" ELSE "insert"

\* insert_article: table('articles').insert(article_data).execute()
InsertRow(rows, s, t) == Append(rows, [id |-> Len(rows) + 1, slug |-> s, title |-> t])

\* a process outside save_article_to_database; ret is what its last call returned
Idle == [pc |-> "idle", title |-> <<>>, slug |-> <<>>, attempt |-> 0,
         source_data |-> FALSE, article_id |-> 0, ret |-> "none"]

\* the call returns ret
Return(p, ret) ==
    /\ proc' = [proc EXCEPT ![p] = [Idle EXCEPT !.ret = ret]]
    /\ calls' = [calls EXCEPT ![p] = @ + 1]

\* _retry_operation after an APIError: another attempt if attempt < max_retries - 1
CanRetry(attempt) == attempt < max_retries - 1

\* save_article_to_database is called with an article
SaveArticleToDatabase(p, t, src) ==
    /\ proc[p].pc = "idle"
    /\ IF ~supabase_enabled
       THEN /\ Return(p, "False")
       ELSE /\ proc' = [proc EXCEPT ![p] = [pc |-> "check", title |-> t,
                                            slug |-> create_slug(t), attempt |-> 0,
                                            source_data |-> src, article_id |-> 0,
                                            ret |-> "none"]]
            /\ UNCHANGED calls
    /\ calls[p] < to_save
    /\ UNCHANGED <<supabase_enabled, active, articles, trending_sources, to_save, db_log>>

\* db.check_slug_exists(slug): one request of its retry loop
CheckSlugExists(p, outcome) ==
    /\ proc[p].pc = "check"
    /\ IF outcome = "api_error" /\ CanRetry(proc[p].attempt)
       THEN /\ proc' = [proc EXCEPT ![p].attempt = @ + 1]
            /\ UNCHANGED <<calls, db_log>>
       ELSE LET \* a failed check is logged and reported as False
                exists == outcome = "ok" /\ SlugExists(articles, proc[p].slug)
            IN  /\ db_log' = Append(db_log, [op |-> "check", proc |-> p,
                                            slug |-> proc[p].slug, found |-> exists])
                /\ IF AfterCheck(exists) = "return"
                   THEN Return(p, "False")
                   ELSE /\ proc' = [proc EXCEPT ![p].pc = "insert", ![p].attempt = 0]
                        /\ UNCHANGED calls
    /\ UNCHANGED <<supabase_enabled, active, articles, trending_sources, to_save>>

\* db.create_article(...): one request of the retry loop of insert_article.
\* stored: whether the table took the row (an "ok" reply always did; a reply
\* lost to a timeout, or one without data, may or may not have)
CreateArticle(p, outcome, stored) ==
    /\ proc[p].pc = "insert"
    /\ outcome = "ok" => stored
    /\ outcome = "api_error" => ~stored
    /\ db_log' = IF proc[p].attempt = 0
                 THEN Append(db_log, [op |-> "insert", proc |-> p,
                                      slug |-> proc[p].slug, found |-> FALSE])
                 ELSE db_log
    /\ articles' = IF stored THEN InsertRow(articles, proc[p].slug, proc[p].title)
                   ELSE articles
    /\ IF outcome = "api_error" /\ CanRetry(proc[p].attempt)
       THEN /\ proc' = [proc EXCEPT ![p].attempt = @ + 1]
            /\ UNCHANGED calls
       ELSE IF outcome = "ok"
            THEN IF proc[p].source_data
                 THEN /\ proc' = [proc EXCEPT ![p].pc = "source", ![p].attempt = 0,
                                              ![p].article_id = Len(articles')]
                      /\ UNCHANGED calls
                 ELSE Return(p, "True")
            ELSE Return(p, "False")
    /\ UNCHANGED <<supabase_enabled, active, trending_sources, to_save>>

\* insert_source: one request of its retry loop; its failure is only logged
InsertSource(p, outcome) ==
    /\ proc[p].pc = "source"
    /\ trending_sources' = IF outcome = "ok"
                           THEN Append(trending_sources, [article_id |-> proc[p].article_id])
                           ELSE trending_sources
    /\ IF outcome = "api_error" /\ CanRetry(proc[p].attempt)
       THEN /\ proc' = [proc EXCEPT ![p].attempt = @ + 1]
            /\ UNCHANGED calls
       ELSE Return(p, "True")
    /\ UNCHANGED <<supabase_enabled, active, articles, to_save, db_log>>

(***************************************************************************)
(* get_all_trending_topics, one action per stage.                          *)
(***************************************************************************)
NormalizeAll ==
    /\ pc = "fetched"
    /\ hn_trends' = Normalize(hn_trends)
    /\ google_trends' = Normalize(google_trends)
    /\ devto_trends' = Normalize(devto_trends)
    /\ ph_trends' = Normalize(ph_trends)
    /\ rss_trends' = Normalize(rss_trends)
    /\ newsapi_trends' = Normalize(newsapi_trends)
    /\ pc' = "normalized"
    /\ UNCHANGED <<all_trends, unique_trends, slugVars, dbVars, restVars>>

CombineAll ==
    /\ pc = "normalized"
    /\ all_trends' = Combined(hn_trends, google_trends, devto_trends,
                              ph_trends, rss_trends, newsapi_trends)
    /\ pc' = "combined"
    /\ UNCHANGED <<hn_trends, google_trends, devto_trends, ph_trends,
                   rss_trends, newsapi_trends, unique_trends, slugVars, dbVars, restVars>>

BoostAll ==
    /\ pc = "combined"
    /\ all_trends' = BoostEach(all_trends)
    \* all_trends holds the very dicts of the six lists: they see the boost too
    /\ hn_trends' = BoostEach(hn_trends)
    /\ google_trends' = BoostEach(google_trends)
    /\ devto_trends' = BoostEach(devto_trends)
    /\ ph_trends' = BoostEach(ph_trends)
    /\ rss_trends' = BoostEach(rss_trends)
    /\ newsapi_trends' = BoostEach(newsapi_trends)
    /\ pc' = "boosted"
    /\ UNCHANGED <<unique_trends, slugVars, dbVars, restVars>>

SortAll ==
    /\ pc = "boosted"
    /\ all_trends' = SortByScoreDesc(all_trends)
    /\ pc' = "sorted"
    /\ UNCHANGED <<hn_trends, google_trends, devto_trends, ph_trends,
                   rss_trends, newsapi_trends, unique_trends, slugVars, dbVars, restVars>>

RemoveDuplicates ==
    /\ pc = "sorted"
    /\ unique_trends' = Dedup(all_trends, <<>>)
    /\ pc' = "done"
    /\ UNCHANGED <<hn_trends, google_trends, devto_trends, ph_trends,
                   rss_trends, newsapi_trends, all_trends, slugVars, dbVars, restVars>>

(***************************************************************************)
(* create_slug applied to a title, then to its own result.                 *)
(***************************************************************************)
Slugify ==
    /\ slug_pc = "start"
    /\ slug' = create_slug(title)
    /\ slug_pc' = "slugged"
    /\ UNCHANGED <<title, slug_again, trendVars, dbVars, restVars>>

Reslugify ==
    /\ slug_pc = "slugged"
    /\ slug_again' = create_slug(slug)
    /\ slug_pc' = "done"
    /\ UNCHANGED <<title, slug, trendVars, dbVars, restVars>>

(***************************************************************************)
(* Initial states and specifications.                                      *)
(***************************************************************************)
vars == <<trendVars, slugVars, dbVars, restVars>>

\* get_all_trending_topics is not running
TrendOff ==
    /\ pc = "off"
    /\ hn_trends = <<>>
    /\ google_trends = <<>>
    /\ devto_trends = <<>>
    /\ ph_trends = <<>>
    /\ rss_trends = <<>>
    /\ newsapi_trends = <<>>
    /\ all_trends = <<>>
    /\ unique_trends = <<>>

SlugOff ==
    /\ slug_pc = "off"
    /\ title = <<>>
    /\ slug = <<>>
    /\ slug_again = <<>>

DbOff ==
    /\ supabase_enabled = FALSE
    /\ active = {}
    /\ articles = <<>>
    /\ trending_sources = <<>>
    /\ proc = [p \in {} |-> Idle]
    /\ calls = [p \in {} |-> 0]
    /\ to_save = 0
    /\ db_log = <<>>

\* no file is written or read
FilesOff ==
    /\ env = "off"
    /\ files = "off"
    /\ sa = "off"
    /\ saved = "off"
    /\ loaded = "off"
    /\ index_calls = "off"

\* no article is being generated
GenOff ==
    /\ gen = "off"
    /\ ga = "off"
    /\ sd = "off"
    /\ sim = "off"

LateOff ==
    /\ sm = "off"
    /\ img = "off"
    /\ cls = "off"
    /\ sched = "off"

\* only the stage under study runs
RestOff ==
    /\ FilesOff
    /\ ad = "off"
    /\ GenOff
    /\ retry = "off"
    /\ main = "off"
    /\ LateOff

NextTrend ==
    \/ NormalizeAll
    \/ CombineAll
    \/ BoostAll
    \/ SortAll
    \/ RemoveDuplicates

\* how many items each of the six sources returned: at most MaxItems in all,
\* and at most Limit from a source that is scored by position
LenDists ==
    {d \in [1..6 -> 0..MaxItems] :
        /\ d[1] + d[2] + d[3] + d[4] + d[5] + d[6] <= MaxItems
        /\ \A i \in {2, 4, 5, 6} : d[i] <= Limit}

\* any run: up to MaxItems items over the six sources
InitTrend ==
    /\ pc = "fetched"
    /\ \E d \in LenDists :
          /\ hn_trends \in ScoredLists("hackernews", Headlines, MaxRaw, d[1])
          /\ google_trends \in PositionalLists("google_trends", GoogleKeywords(Headlines), d[2])
          /\ devto_trends \in ScoredLists("devto", Headlines, MaxRaw, d[3])
          /\ ph_trends \in PositionalLists("producthunt", Headlines, d[4])
          /\ rss_trends \in PositionalLists("techcrunch", Headlines, d[5])
          /\ newsapi_trends \in PositionalLists("newsapi", Headlines, d[6])
    /\ all_trends = <<>>
    /\ unique_trends = <<>>
    /\ SlugOff
    /\ DbOff
    /\ RestOff

SpecTrend == InitTrend /\ [][NextTrend]_vars

\* runs that look at the scores: HackerNews alone returns one or two stories
InitScores ==
    /\ pc = "fetched"
    /\ \E n \in 1..2 : hn_trends \in ScoredLists("hackernews", CpcHeadlines, MaxScore, n)
    /\ google_trends = <<>>
    /\ devto_trends = <<>>
    /\ ph_trends = <<>>
    /\ rss_trends = <<>>
    /\ newsapi_trends = <<>>
    /\ all_trends = <<>>
    /\ unique_trends = <<>>
    /\ SlugOff
    /\ DbOff
    /\ RestOff

SpecScores == InitScores /\ [][NextTrend]_vars

HNItem(k, raw) ==
    [keyword |-> k, source |-> "hackernews", score |-> raw, cpc_boost |-> FALSE, uid |-> 0]

\* the scenario: two HackerNews stories with 100 and 50 points, one Google
\* Trends title, nothing from the other sources
InitScenario ==
    /\ pc = "fetched"
    /\ \E k1 \in ScenarioHeadlines, k2 \in ScenarioHeadlines :
          hn_trends = <<HNItem(k1, 100), HNItem(k2, 50)>>
    /\ google_trends \in PositionalLists("google_trends", GoogleKeywords(ScenarioHeadlines), 1)
    /\ devto_trends = <<>>
    /\ ph_trends = <<>>
    /\ rss_trends = <<>>
    /\ newsapi_trends = <<>>
    /\ all_trends = <<>>
    /\ unique_trends = <<>>
    /\ SlugOff
    /\ DbOff
    /\ RestOff

SpecScenario == InitScenario /\ [][NextTrend]_vars

(***************************************************************************)
(* create_slug on every short title and on the documented example.         *)
(***************************************************************************)
TitleChars == {"a", "B", "1", " ", "-", "!"}

TitleHello == <<"H", "e", "l", "l", "o", ",", " ", "W", "o", "r", "l", "d", "!", " ", "2", "0", "2", "4">>
SlugHello == <<"h", "e", "l", "l", "o", "-", "w", "o", "r", "l", "d", "-", "2", "0", "2", "4">>

Titles == UNION {[1..n -> TitleChars] : n \in 0..MaxTitleLen} \cup {TitleHello}

NextSlug ==
    \/ Slugify
    \/ Reslugify

InitSlug ==
    /\ slug_pc = "start"
    /\ title \in Titles
    /\ slug = <<>>
    /\ slug_again = <<>>
    /\ TrendOff
    /\ DbOff
    /\ RestOff

SpecSlug == InitSlug /\ [][NextSlug]_vars

(***************************************************************************)
(* save_article_to_database: one pipeline run, and two concurrent runs.    *)
(***************************************************************************)
TitleHelloWorld == <<"H", "e", "l", "l", "o", " ", "W", "o", "r", "l", "d">>
TitleHelloWorldLc == <<"h", "e", "l", "l", "o", ",", " ", "w", "o", "r", "l", "d", "!">>

ArticleTitles == {TitleHelloWorld, TitleHelloWorldLc, Text(KwAI)}

NextSave ==
    \/ \E p \in active, t \in ArticleTitles, src \in BOOLEAN :
          SaveArticleToDatabase(p, t, src) /\ UNCHANGED <<trendVars, slugVars, restVars>>
    \/ \E p \in active, o \in Outcomes :
          CheckSlugExists(p, o) /\ UNCHANGED <<trendVars, slugVars, restVars>>
    \/ \E p \in active, o \in Outcomes, stored \in BOOLEAN :
          CreateArticle(p, o, stored) /\ UNCHANGED <<trendVars, slugVars, restVars>>
    \/ \E p \in active, o \in Outcomes :
          InsertSource(p, o) /\ UNCHANGED <<trendVars, slugVars, restVars>>

InitDb(procs, n) ==
    /\ supabase_enabled \in BOOLEAN
    /\ active = procs
    /\ articles = <<>>
    /\ trending_sources = <<>>
    /\ proc = [p \in procs |-> Idle]
    /\ calls = [p \in procs |-> 0]
    /\ to_save = n
    /\ db_log = <<>>
    /\ TrendOff
    /\ SlugOff
    /\ RestOff

\* the system as deployed: a single pipeline process, run after run
SpecSave == InitDb({1}, MaxSaves) /\ [][NextSave]_vars

\* two pipeline processes at once, each with one article to save
SpecSaveConcurrent == InitDb({1, 2}, 1) /\ [][NextSave]_vars


(***************************************************************************)
(* Properties of get_all_trending_topics.                                  *)
(***************************************************************************)
\* the duplicate relation as the specification words it: equal ignoring
\* case, or one lowercased text inside the other, or both with words of more
\* than 2 characters and a Jaccard similarity of the word sets of 1/2 or more
StatedDuplicates(a, b) ==
    LET la == Lower(Text(a))
        lb == Lower(Text(b))
        wa == {w \in FindAllAlnum(la) : Len(w) >= 3}
        wb == {w \in FindAllAlnum(lb) : Len(w) >= 3}
    IN  \/ la = lb
        \/ \E i \in 0..(Len(lb) - Len(la)) : SubSeq(lb, i + 1, i + Len(la)) = la
        \/ \E i \in 0..(Len(la) - Len(lb)) : SubSeq(la, i + 1, i + Len(lb)) = lb
        \/ /\ wa # {}
           /\ wb # {}
           /\ Cardinality(wa \cap wb) * 2 >= Cardinality(wa \cup wb)

StatedDupPairs ==
    Enumerated({p \in KnownHeadlines \X KnownHeadlines : StatedDuplicates(p[1], p[2])})

Returned(uid) == \E i \in 1..Len(unique_trends) : unique_trends[i].uid = uid

\* the place of an item in the sorted combined list
PlaceOf(uid) == CHOOSE i \in 1..Len(all_trends) : all_trends[i].uid = uid

\* C1: no two items of the list get_all_trending_topics returns are
\* duplicates of each other (equal ignoring case, substring, or word overlap
\* of at least 0.5).
C1_NoDuplicatesReturned ==
    pc = "done" =>
        \A i, j \in 1..Len(unique_trends) :
            i # j => <<unique_trends[i].keyword, unique_trends[j].keyword>> \notin StatedDupPairs

\* a run in which the deduplication dropped an item and kept at least two
C1_Witness ==
    /\ pc = "done"
    /\ Len(unique_trends) >= 2
    /\ Len(unique_trends) < Len(all_trends)

\* C2: the returned list is a subsequence of the score-sorted combined list,
\* and every dropped item is a duplicate of a returned item that comes before
\* it in the sorted list and whose boosted score is at least its own.
C2_FirstAcceptedWins ==
    pc = "done" =>
        /\ \A i \in 1..Len(unique_trends) :
              \E k \in 1..Len(all_trends) : all_trends[k] = unique_trends[i]
        /\ \A i, j \in 1..Len(unique_trends) :
              i < j => PlaceOf(unique_trends[i].uid) < PlaceOf(unique_trends[j].uid)
        /\ \A k \in 1..Len(all_trends) :
              ~Returned(all_trends[k].uid) =>
                  \E i \in 1..Len(unique_trends) :
                      /\ PlaceOf(unique_trends[i].uid) < k
                      /\ <<all_trends[k].keyword, unique_trends[i].keyword>> \in StatedDupPairs
                      /\ unique_trends[i].score >= all_trends[k].score

\* a run in which an item was dropped in favour of a strictly better scored
\* duplicate, and an item sorted after the dropped one was still returned
C2_Witness ==
    /\ pc = "done"
    /\ \E k \in 1..Len(all_trends) :
          /\ ~Returned(all_trends[k].uid)
          /\ all_trends[1].score > all_trends[k].score
          /\ <<all_trends[k].keyword, all_trends[1].keyword>> \in StatedDupPairs
          /\ \E m \in (k + 1)..Len(all_trends) : Returned(all_trends[m].uid)

\* the vocabulary of a keyword: its words, whatever their length
Vocabulary(k) == FindAllAlnum(Lower(Text(k)))

DisjointPairs ==
    Enumerated({p \in KnownHeadlines \X KnownHeadlines :
                   Vocabulary(p[1]) \cap Vocabulary(p[2]) = {}})

SubstringPairs ==
    Enumerated({p \in KnownHeadlines \X KnownHeadlines :
                   \/ IsSubstring(Lower(Text(p[1])), Lower(Text(p[2])))
                   \/ IsSubstring(Lower(Text(p[2])), Lower(Text(p[1])))})

\* C3 as stated: a keyword whose vocabulary is disjoint from that of every
\* other item never collapses into another item: it is in the returned list.
C3_DisjointNeverCollapse ==
    pc = "done" =>
        \A k \in 1..Len(all_trends) :
            (\A m \in 1..Len(all_trends) :
                m # k => <<all_trends[k].keyword, all_trends[m].keyword>> \in DisjointPairs)
            => Returned(all_trends[k].uid)

\* C3, amended: a keyword whose vocabulary is disjoint from that of every
\* other item, and which neither contains nor is contained in the lowercased
\* text of another item, is in the returned list; so two such keywords never
\* collapse into one item, whatever their scores.
C3_DisjointNoSubstringNeverCollapse ==
    pc = "done" =>
        \A k \in 1..Len(all_trends) :
            (\A m \in 1..Len(all_trends) :
                m # k => /\ <<all_trends[k].keyword, all_trends[m].keyword>> \in DisjointPairs
                         /\ <<all_trends[k].keyword, all_trends[m].keyword>> \notin SubstringPairs)
            => Returned(all_trends[k].uid)

\* a run with two items of disjoint vocabulary, neither inside the other, the
\* lower scored of which has words of more than 2 characters, both returned
C3_Witness ==
    /\ pc = "done"
    /\ Len(all_trends) = 2
    /\ <<all_trends[1].keyword, all_trends[2].keyword>> \in DisjointPairs
    /\ <<all_trends[1].keyword, all_trends[2].keyword>> \notin SubstringPairs
    /\ all_trends[1].score > all_trends[2].score
    /\ SignificantWords(Lower(Text(all_trends[1].keyword))) # {}
    /\ SignificantWords(Lower(Text(all_trends[2].keyword))) # {}
    /\ Len(unique_trends) = 2

\* the place of a source in the combined list
SourceRank(src) ==
    CASE src = "hackernews" -> 1
      [] src = "google_trends" -> 2
      [] src = "devto" -> 3
      [] src = "producthunt" -> 4
      [] src \in {"techcrunch", "theverge"} -> 5
      [] src = "newsapi" -> 6

\* a was before b in the combined list: an earlier source, or the same
\* source and fetched earlier
CombinedBefore(a, b) ==
    \/ SourceRank(a.source) < SourceRank(b.source)
    \/ SourceRank(a.source) = SourceRank(b.source) /\ a.uid < b.uid

\* C7: the returned list is in descending order of boosted score, and items
\* of equal score keep the order they had in the combined list (HackerNews,
\* Google Trends, Dev.to, Product Hunt, RSS, NewsAPI; fetch order within one).
C7_SortedStable ==
    pc = "done" =>
        \A i, j \in 1..Len(unique_trends) :
            i < j =>
                \/ unique_trends[i].score > unique_trends[j].score
                \/ /\ unique_trends[i].score = unique_trends[j].score
                   /\ CombinedBefore(unique_trends[i], unique_trends[j])

\* a run that returns two items of equal score from different sources after
\* an item of a later source that outscored them
C7_Witness ==
    /\ pc = "done"
    /\ Len(unique_trends) = 3
    /\ unique_trends[1].score > unique_trends[2].score
    /\ unique_trends[2].score = unique_trends[3].score
    /\ SourceRank(unique_trends[1].source) > SourceRank(unique_trends[3].source)
    /\ SourceRank(unique_trends[2].source) < SourceRank(unique_trends[3].source)

\* the item that was put at place uid of the combined list
ItemOf(uid) == all_trends[PlaceOf(uid)]

\* word overlap of at least 0.5: the Jaccard similarity of the sets of words
\* of more than 2 characters
OverlapPairs ==
    Enumerated({p \in KnownHeadlines \X KnownHeadlines :
        LET wa == {w \in FindAllAlnum(Lower(Text(p[1]))) : Len(w) >= 3}
            wb == {w \in FindAllAlnum(Lower(Text(p[2]))) : Len(w) >= 3}
        IN  wa # {} /\ wb # {} /\ Cardinality(wa \cap wb) * 2 >= Cardinality(wa \cup wb)})

\* in the scenario the combined list is: 1 the HackerNews story with 100
\* points, 2 the one with 50 points, 3 the Google Trends title
ScenarioOverlap == <<ItemOf(3).keyword, ItemOf(1).keyword>> \in OverlapPairs

TopFirstOfTwo ==
    /\ Len(unique_trends) = 2
    /\ unique_trends[1].uid = 1
    /\ unique_trends[1].source = "hackernews"

\* C4 as stated: two HackerNews stories (100 and 50 points) and one Google
\* Trends title overlapping the top story by at least 0.5 give exactly 2
\* items, the top HackerNews story first.
C4_ScenarioTwoItems ==
    (pc = "done" /\ ScenarioOverlap) => TopFirstOfTwo

\* C4, amended: the same, provided the second HackerNews story is not a
\* duplicate of the top one and neither other item's boosted score exceeds
\* the boosted score of the top HackerNews story.
C4_ScenarioTwoItemsAmended ==
    (/\ pc = "done"
     /\ ScenarioOverlap
     /\ <<ItemOf(2).keyword, ItemOf(1).keyword>> \notin StatedDupPairs
     /\ ItemOf(2).score <= ItemOf(1).score
     /\ ItemOf(3).score <= ItemOf(1).score)
    => TopFirstOfTwo

\* the scenario with a Google Trends title that is a near duplicate, not a
\* copy, of the top story and as highly scored: the top story wins the tie
C4_Witness ==
    /\ pc = "done"
    /\ ScenarioOverlap
    /\ Lower(Text(ItemOf(3).keyword)) # Lower(Text(ItemOf(1).keyword))
    /\ <<ItemOf(3).keyword, ItemOf(1).keyword>> \notin SubstringPairs
    /\ ItemOf(3).score = ItemOf(1).score
    /\ ItemOf(2).score < ItemOf(1).score
    /\ TopFirstOfTwo
    /\ unique_trends[2].uid = 2

RawMax(trends) == SeqMax([i \in 1..Len(trends) |-> trends[i].score])

InRange(after) == \A i \in 1..Len(after) : after[i].score >= 0 /\ after[i].score <= 100

\* C5 as stated, for one list: every score in [0,100], the largest raw score
\* mapped to 100
NormalizedAsStated(before, after) ==
    before # <<>> =>
        /\ InRange(after)
        /\ \A i \in 1..Len(before) :
              before[i].score = RawMax(before) => after[i].score = 100

\* C5 as stated: after _normalize of a non-empty list every score lies in
\* [0,100] and the item with the largest raw score has score 100.
C5_NormalizedMaxIs100 ==
    [][(pc = "fetched" /\ pc' = "normalized") =>
          /\ NormalizedAsStated(hn_trends, hn_trends')
          /\ NormalizedAsStated(google_trends, google_trends')
          /\ NormalizedAsStated(devto_trends, devto_trends')
          /\ NormalizedAsStated(ph_trends, ph_trends')
          /\ NormalizedAsStated(rss_trends, rss_trends')
          /\ NormalizedAsStated(newsapi_trends, newsapi_trends')]_vars

NormalizedAmended(before, after) ==
    before # <<>> =>
        /\ InRange(after)
        /\ RawMax(before) > 0 =>
              \A i \in 1..Len(before) :
                  before[i].score = RawMax(before) => after[i].score = 100
        /\ RawMax(before) = 0 => \A i \in 1..Len(after) : after[i].score = 0

\* C5, amended: after _normalize of a non-empty list (of non-negative raw
\* scores) every score lies in [0,100]; the item with the largest raw score
\* has score 100 when that raw score is positive, and when every raw score is
\* 0 every score stays 0.
C5_NormalizedAmended ==
    [][(pc = "fetched" /\ pc' = "normalized") =>
          /\ NormalizedAmended(hn_trends, hn_trends')
          /\ NormalizedAmended(google_trends, google_trends')
          /\ NormalizedAmended(devto_trends, devto_trends')
          /\ NormalizedAmended(ph_trends, ph_trends')
          /\ NormalizedAmended(rss_trends, rss_trends')
          /\ NormalizedAmended(newsapi_trends, newsapi_trends')]_vars

\* a normalised list of two stories: one at 100, one strictly between 0 and 100
C5_Witness ==
    /\ pc = "normalized"
    /\ Len(hn_trends) = 2
    /\ hn_trends[2].score = 100
    /\ hn_trends[1].score > 0
    /\ hn_trends[1].score < 100

\* how many entries of HIGH_CPC_KEYWORDS a keyword contains, ignoring case:
\* the entries as written in the list, and the entries with the white space
\* around them stripped
ContainedTerms(keyword, stripped) ==
    Cardinality({i \in DOMAIN HIGH_CPC_KEYWORDS :
        LET term == Lower(HIGH_CPC_KEYWORDS[i])
        IN  IsSubstring(IF stripped THEN Strip(term) ELSE term, Lower(Text(keyword)))})

TermsAsWritten == {<<k, ContainedTerms(k, FALSE)>> : k \in KnownHeadlines}
TermsStripped == {<<k, ContainedTerms(k, TRUE)>> : k \in KnownHeadlines}

CountIn(table, keyword) == (CHOOSE p \in table : p[1] = keyword)[2]

\* max(round(score * min(1 + 0.5 * k, 3.0)), 50) for k >= 1, score for k = 0
StatedBoost(score, k) ==
    IF k >= 1
    THEN LET doubled == IF 2 + k <= 6 THEN score * (2 + k) ELSE score * 6
             rounded == Round(doubled, 2)
         IN  IF rounded >= 50 THEN rounded ELSE 50
    ELSE score

\* C6 as stated: an item whose keyword contains k >= 1 entries of the
\* high-CPC list (case-insensitive substring match) gets the score
\* max(round(normalized * min(1 + 0.5 k, 3.0)), 50); with k = 0 its score
\* is unchanged.
C6_BoostAsStated ==
    [][(pc = "combined" /\ pc' = "boosted") =>
          \A i \in 1..Len(all_trends) :
              all_trends'[i].score =
                  StatedBoost(all_trends[i].score, CountIn(TermsAsWritten, all_trends[i].keyword))]_vars

\* C6, amended: the same with k counting the entries of the list whose text,
\* lowercased and with the white space around it stripped, is inside the
\* lowercased keyword (so ' AI ' and 'EV ' match as 'ai' and 'ev', also
\* inside a longer word).
C6_BoostStrippedTerms ==
    [][(pc = "combined" /\ pc' = "boosted") =>
          \A i \in 1..Len(all_trends) :
              all_trends'[i].score =
                  StatedBoost(all_trends[i].score, CountIn(TermsStripped, all_trends[i].keyword))]_vars

\* boosted stories: one with five matching entries at three times its 100,
\* one with a single match lifted to the floor of 50
C6_Witness ==
    /\ pc = "boosted"
    /\ \E i, j \in 1..Len(all_trends) :
          /\ CountIn(TermsStripped, all_trends[i].keyword) >= 5
          /\ all_trends[i].score = 300
          /\ CountIn(TermsStripped, all_trends[j].keyword) = 1
          /\ all_trends[j].cpc_boost
          /\ all_trends[j].score = 50

(***************************************************************************)
(* Properties of create_slug.                                              *)
(***************************************************************************)
\* only lowercase letters, digits and single hyphens, none at either end
WellFormedSlug(s) ==
    /\ \A i \in 1..Len(s) : s[i] \in AlnumLowerChars \cup {"-"}
    /\ \A i \in 1..(Len(s) - 1) : ~(s[i] = "-" /\ s[i + 1] = "-")
    /\ s # <<>> => s[1] # "-" /\ s[Len(s)] # "-"

\* C8: create_slug(create_slug(t)) = create_slug(t); the slug has only
\* lowercase letters, digits and single hyphens, none leading or trailing;
\* and create_slug("Hello, World! 2024") = "hello-world-2024".
C8_SlugIdempotent ==
    slug_pc = "done" =>
        /\ slug_again = slug
        /\ WellFormedSlug(slug)
        /\ title = TitleHello => slug = SlugHello

\* a title with capitals, punctuation, runs of spaces and hyphens at its ends
C8_Witness ==
    /\ slug_pc = "done"
    /\ title = <<"-", "B", " ", "!">>
    /\ slug = <<"b">>
    /\ slug_again = slug

(***************************************************************************)
(* Properties of save_article_to_database.                                 *)
(***************************************************************************)
\* C9: in a single sequential pipeline run the articles table never holds
\* two rows with the same slug, the insert coming only after the existence
\* check.
C9_SlugsUnique ==
    \A i, j \in 1..Len(articles) : i # j => articles[i].slug # articles[j].slug

\* C10: the save is check-then-act: every insert call of a process follows
\* a check_slug_exists of that process for the same slug that returned False,
\* with no other call of that process in between; nothing orders it relative
\* to the calls of the other process.
C10_CheckThenAct ==
    \A i \in 1..Len(db_log) :
        db_log[i].op = "insert" =>
            \E j \in 1..(i - 1) :
                /\ db_log[j] = [op |-> "check", proc |-> db_log[i].proc,
                                slug |-> db_log[i].slug, found |-> FALSE]
                /\ \A m \in (j + 1)..(i - 1) : db_log[m].proc # db_log[i].proc

\* the interleaving: both processes pass check_slug_exists for one slug
\* before either inserts, and both then call the insert for it
C10_Witness ==
    /\ Len(db_log) = 4
    /\ db_log[1].op = "check" /\ db_log[2].op = "check"
    /\ db_log[3].op = "insert" /\ db_log[4].op = "insert"
    /\ db_log[1].proc # db_log[2].proc
    /\ db_log[3].proc # db_log[4].proc
    /\ \A i \in 1..4 : db_log[i].slug = db_log[1].slug /\ ~db_log[i].found
    /\ \A i \in 1..Len(articles) : articles[i].slug = db_log[1].slug
    /\ Len(articles) = 2

(***************************************************************************)
(* save_article.py: save_article and get_all_articles on one directory.    *)
(***************************************************************************)
\* the zero-padded decimal digits of n, w of them
Digits(n, w) == [i \in 1..w |-> DigitChars[((n \div (10 ^ (w - i))) % 10) + 1]]

\* datetime.isoformat(): fixed-width fields, and the fraction of a second
\* left out when it is zero.  Only the seconds and the fraction are written
\* here; the fields before them are the same for every reading of the model.
isoformat(t) ==
    Digits(t.sec, 2) \o (IF t.micro = 0 THEN <<>> ELSE <<".">> \o Digits(t.micro, 6))

\* the clock readings: seconds 9 .. 9 + MaxClock, on the second or half way
Stamps == {[sec |-> s, micro |-> m] : s \in 9..(9 + MaxClock), m \in {0, 500000}}

\* the characters of a timestamp, in code point order
StampChars == <<".">> \o DigitChars

Ord(c) == CHOOSE i \in 1..Len(StampChars) : StampChars[i] = c

\* a < b on Python strings
StrLess(a, b) ==
    \E i \in 1..(Min2(Len(a), Len(b)) + 1) :
        /\ \A j \in 1..(i - 1) : a[j] = b[j]
        /\ \/ i > Len(a) /\ i <= Len(b)
           \/ i <= Len(a) /\ i <= Len(b) /\ Ord(a[i]) < Ord(b[i])

\* InsertByCreatedDesc leaving the list in the order it was built
AppendUnsorted(sorted, x) == Append(sorted, x)

\* one step of list.sort(key=created_at, reverse=True): x goes after every
\* element whose created_at is not less than its own
InsertByCreatedDesc(sorted, x) ==
    LET n == Cardinality({i \in 1..Len(sorted) :
                             ~StrLess(sorted[i].created_at, x.created_at)})
    IN  SubSeq(sorted, 1, n) \o <<x>> \o SubSeq(sorted, n + 1, Len(sorted))

RECURSIVE SortByCreatedDesc(_)
SortByCreatedDesc(s) ==
    IF s = <<>> THEN <<>>
    ELSE InsertByCreatedDesc(SortByCreatedDesc(SubSeq(s, 1, Len(s) - 1)), s[Len(s)])

\* os.getenv(name, default)
Getenv(name, default) == IF env[name].set THEN env[name].value ELSE default

EnvUnset == [set |-> FALSE, value |-> <<>>]
EnvSet(v) == [set |-> TRUE, value |-> v]

StrTrue == <<"t", "r", "u", "e">>
StrTrueUpper == <<"T", "R", "U", "E">>
StrFalse == <<"f", "a", "l", "s", "e">>

\* keep_json_backup = os.getenv('KEEP_JSON_BACKUP', 'true').lower() == 'true'
keep_json_backup == Lower(Getenv("KEEP_JSON_BACKUP", StrTrue)) = StrTrue

TitleIndex == <<"I", "n", "d", "e", "x">>

\* generate_content stamps an article when it is generated: the k-th article
\* handed to save_article carries the k-th reading of the clock
StampOf(k) == isoformat([sec |-> 9 + k, micro |-> 0])

\* the articles handed to save_article: two titles with one slug, and a
\* title whose slug is "index"
SaveTitles == {TitleHelloWorld, TitleHelloWorldLc, TitleIndex}

ContentOf(t) == IF t = TitleHelloWorldLc THEN "<p>two</p>" ELSE "<p>one</p>"

SaveArticles(k) ==
    {[title |-> t, content |-> ContentOf(t), timestamp |-> StampOf(k)] : t \in SaveTitles}

NoArticle == [title |-> <<>>, content |-> "", timestamp |-> <<>>]

DotJson == <<".", "j", "s", "o", "n">>

\* output_path / f"{slug}.json"
JsonName(s) == s \o DotJson

IndexName == <<"i", "n", "d", "e", "x">> \o DotJson

\* article_data, the fields the properties look at
ArticleData(a) ==
    [kind |-> "article", slug |-> create_slug(a.title), title |-> a.title,
     content |-> a.content, created_at |-> a.timestamp]

\* open(file_path, 'w') and json.dump: the file is created or replaced
WriteFile(dir, name, content) ==
    [n \in DOMAIN dir \cup {name} |-> IF n = name THEN content ELSE dir[n]]

\* what save_article returns: a path, "database_only" or None
ResultPath(name) == [kind |-> "path", path |-> name]
ResultDatabaseOnly == [kind |-> "database_only", path |-> <<>>]
ResultNone == [kind |-> "None", path |-> <<>>]

\* NeedsJson writing the file only when the backup is kept
NeedsJsonKeepOnly(keep, db_saved) == keep

\* if keep_json_backup or not db_saved
NeedsJson(keep, db_saved) == keep \/ ~db_saved

\* lines 149-192 of save_article: the JSON write, or "database_only".
\* io is what the file system does with the write: "ok" or "error"
FinishSave(a, db_saved, io) ==
    LET name == JsonName(create_slug(a.title))
        result == IF NeedsJson(keep_json_backup, db_saved)
                  THEN IF io = "ok" THEN ResultPath(name) ELSE ResultNone
                  ELSE ResultDatabaseOnly
    IN  /\ ~NeedsJson(keep_json_backup, db_saved) => io = "ok"
        /\ files' = IF result.kind = "path"
                    THEN WriteFile(files, name, ArticleData(a))
                    ELSE files
        /\ saved' = Append(saved, [article |-> a, slug |-> create_slug(a.title),
                                   db_saved |-> db_saved, result |-> result])
        /\ sa' = [pc |-> "idle", article |-> NoArticle]
        /\ UNCHANGED <<env, loaded, index_calls>>

\* save_article(article) is called.  With Supabase enabled it first calls
\* save_article_to_database, whose requests are steps of their own; without
\* it the call runs to its end
SaveArticle(a, io) ==
    /\ sa.pc = "idle"
    /\ ~loaded.done
    /\ Len(saved) < MaxSaves
    /\ IF supabase_enabled
       THEN /\ SaveArticleToDatabase(1, a.title, TRUE)
            /\ io = "ok"
            /\ sa' = [pc |-> "db", article |-> a]
            /\ UNCHANGED <<env, files, saved, loaded, index_calls>>
       ELSE /\ FinishSave(a, FALSE, io)
            /\ UNCHANGED dbVars

\* save_article_to_database has returned: db_saved is its result
SaveArticleAfterDb(io) ==
    /\ sa.pc = "db"
    /\ proc[1].pc = "idle"
    /\ FinishSave(sa.article, proc[1].ret = "True", io)
    /\ UNCHANGED dbVars

\* the files glob('*.json') yields, index.json skipped
GlobbedNames == DOMAIN files \ {IndexName}

\* get_all_articles: the files are read in the order glob yields them (any
\* order), then sorted newest first
GetAllArticles(order) ==
    /\ sa.pc = "idle"
    /\ ~loaded.done
    /\ saved # <<>>
    /\ DOMAIN order = 1..Cardinality(GlobbedNames)
    /\ Range(order) = GlobbedNames
    /\ loaded' = [done |-> TRUE,
                  articles |-> SortByCreatedDesc([i \in DOMAIN order |-> files[order[i]]])]
    /\ UNCHANGED <<env, files, sa, saved, index_calls, dbVars>>

IoOutcomes == {"ok", "error"}

NextArticles ==
    \/ \E a \in SaveArticles(Len(saved)), io \in IoOutcomes :
          SaveArticle(a, io) /\ UNCHANGED <<trendVars, slugVars, ad, genVars, retry, main, lateVars>>
    \/ \E io \in IoOutcomes :
          SaveArticleAfterDb(io) /\ UNCHANGED <<trendVars, slugVars, ad, genVars, retry, main, lateVars>>
    \/ \E o \in Outcomes :
          CheckSlugExists(1, o) /\ UNCHANGED <<trendVars, slugVars, restVars>>
    \/ \E o \in Outcomes, stored \in BOOLEAN :
          CreateArticle(1, o, stored) /\ UNCHANGED <<trendVars, slugVars, restVars>>
    \/ \E o \in Outcomes :
          InsertSource(1, o) /\ UNCHANGED <<trendVars, slugVars, restVars>>
    \/ \E order \in UNION {[1..n -> GlobbedNames] : n \in 0..MaxSaves} :
          GetAllArticles(order) /\ UNCHANGED <<trendVars, slugVars, ad, genVars, retry, main, lateVars>>

\* an empty output directory and an empty articles table
InitArticles ==
    /\ env \in {[KEEP_JSON_BACKUP |-> v] :
                   v \in {EnvUnset, EnvSet(StrTrueUpper), EnvSet(StrFalse)}}
    /\ files = << >>
    /\ sa = [pc |-> "idle", article |-> NoArticle]
    /\ saved = <<>>
    /\ loaded = [done |-> FALSE, articles |-> <<>>]
    /\ index_calls = <<>>
    /\ supabase_enabled \in BOOLEAN
    /\ active = {1}
    /\ articles = <<>>
    /\ trending_sources = <<>>
    /\ proc = [p \in {1} |-> Idle]
    /\ calls = [p \in {1} |-> 0]
    /\ to_save = MaxSaves
    /\ db_log = <<>>
    /\ TrendOff
    /\ SlugOff
    /\ ad = "off"
    /\ GenOff
    /\ retry = "off"
    /\ main = "off"
    /\ LateOff

SpecArticles == InitArticles /\ [][NextArticles]_vars

(***************************************************************************)
(* Properties of save_article and get_all_articles.                        *)
(***************************************************************************)
\* C11: after any sequence of save_article calls into one directory, every
\* article for which save_article returned a file path is among the
\* articles get_all_articles returns, with the slug, title and content it
\* was saved with.
C11_RoundTrip ==
    loaded.done =>
        \A i \in 1..Len(saved) :
            saved[i].result.kind = "path" =>
                \E j \in 1..Len(loaded.articles) :
                    /\ loaded.articles[j].slug = saved[i].slug
                    /\ loaded.articles[j].title = saved[i].article.title
                    /\ loaded.articles[j].content = saved[i].article.content

\* "KEEP_JSON_BACKUP is true": left unset, or set to true in any letter case
StatedKeepBackup ==
    ~env.KEEP_JSON_BACKUP.set \/ Lower(env.KEEP_JSON_BACKUP.value) = StrTrue

\* the database save succeeded: save_article_to_database ran and returned True
DbSucceeded == supabase_enabled /\ sa.pc = "db" /\ proc[1].ret = "True"

\* the directory holds the file of the article of entry e
HasFile(dir, e) ==
    /\ JsonName(e.slug) \in DOMAIN dir
    /\ dir[JsonName(e.slug)].title = e.article.title
    /\ dir[JsonName(e.slug)].content = e.article.content

\* the articles table holds a row of the article of entry e
HasRow(rows, e) ==
    \E i \in 1..Len(rows) : rows[i].slug = e.slug /\ rows[i].title = e.article.title

\* C19: when save_article returns, (1) if KEEP_JSON_BACKUP is true or the
\* database save did not succeed, the JSON write was made: the result is the
\* path of the file, which then holds the article, or None if the write
\* failed, never "database_only"; (2) "database_only" is returned only when
\* the database save succeeded and the backup is disabled; (3) an article
\* with a non-None result is, at that moment, in the articles table or in
\* its JSON file.
C19_DualWrite ==
    [][Len(saved') = Len(saved) + 1 =>
          LET e == saved'[Len(saved')]
          IN  /\ (StatedKeepBackup \/ ~DbSucceeded) =>
                    /\ e.result.kind # "database_only"
                    /\ e.result.kind = "path" => HasFile(files', e)
              /\ e.result.kind = "database_only" => DbSucceeded /\ ~StatedKeepBackup
              /\ e.result.kind # "None" => HasRow(articles', e) \/ HasFile(files', e)]_vars

\* with the backup disabled, a first article went to the database only, and
\* a second one with the same slug was refused there and written as JSON
C19_Witness ==
    /\ Len(saved) = 2
    /\ ~StatedKeepBackup
    /\ saved[1].result.kind = "database_only"
    /\ saved[2].slug = saved[1].slug
    /\ ~saved[2].db_saved
    /\ saved[2].result.kind = "path"
    /\ HasRow(articles, saved[1])
    /\ JsonName(saved[2].slug) \in DOMAIN files

(***************************************************************************)
(* save_article.py: save_articles_index.                                   *)
(***************************************************************************)
\* the articles of a batch: any title with any reading of the clock
IndexTitles == {TitleHelloWorld, Text(KwAI)}

IndexArticles == [title : IndexTitles, timestamp : {isoformat(t) : t \in Stamps}]

\* save_multiple_articles hands the articles of one run, in the order they
\* were generated and stamped: one article, or two with the later one last
Batches ==
    Enumerated([1..1 -> IndexArticles]
                   \cup {b \in [1..2 -> IndexArticles] :
                            ~StrLess(b[2].timestamp, b[1].timestamp)})

\* create_slug of the titles of the batches, computed once
SlugTable == {<<t, create_slug(t)>> : t \in IndexTitles \cup ArticleTitles}

SlugOf(t) == (CHOOSE p \in SlugTable : p[1] = t)[2]

\* index_data: one summary entry per article of the batch
IndexEntry(a) ==
    [slug |-> SlugOf(a.title), title |-> a.title, created_at |-> a.timestamp]

EmptyIndex == [kind |-> "index", entries |-> <<>>]

\* save_articles_index(articles): merge the batch into index.json.
\* io: the file system lets the call through ("ok") or raises ("error")
SaveArticlesIndex(batch, io) ==
    /\ Len(index_calls) < MaxSaves
    /\ LET index_data == [i \in DOMAIN batch |-> IndexEntry(batch[i])]
           existing == IF IndexName \in DOMAIN files THEN files[IndexName] ELSE EmptyIndex
           \* an index.json that holds no list makes the merge raise
           readable == existing.kind = "index"
           existing_index == IF readable THEN existing.entries ELSE <<>>
           existing_slugs == {existing_index[i].slug : i \in DOMAIN existing_index}
           IsNew(item) == item.slug \notin existing_slugs
           new_items == SelectSeq(index_data, IsNew)
           combined_index == SortByCreatedDesc(existing_index \o new_items)
       IN  IF io = "ok" /\ readable
           THEN /\ files' = WriteFile(files, IndexName,
                                      [kind |-> "index", entries |-> combined_index])
                /\ index_calls' = Append(index_calls, "True")
           ELSE /\ files' = files
                /\ index_calls' = Append(index_calls, "False")
    /\ UNCHANGED <<env, sa, saved, loaded>>

NextIndex ==
    \E batch \in Batches, io \in IoOutcomes :
        SaveArticlesIndex(batch, io)
            /\ UNCHANGED <<trendVars, slugVars, dbVars, ad, genVars, retry, main, lateVars>>

\* an output directory without index.json
InitIndex ==
    /\ env = "off"
    /\ files = << >>
    /\ sa = "off"
    /\ saved = "off"
    /\ loaded = "off"
    /\ index_calls = <<>>
    /\ TrendOff
    /\ SlugOff
    /\ DbOff
    /\ ad = "off"
    /\ GenOff
    /\ retry = "off"
    /\ main = "off"
    /\ LateOff

SpecIndex == InitIndex /\ [][NextIndex]_vars

(***************************************************************************)
(* Properties of save_articles_index.                                      *)
(***************************************************************************)
DigitVal(c) == (CHOOSE i \in 1..10 : DigitChars[i] = c) - 1

\* the instant a created_at string stands for, in microseconds
TimeOf(s) ==
    (DigitVal(s[1]) * 10 + DigitVal(s[2])) * 1000000
        + (IF Len(s) > 2
           THEN DigitVal(s[4]) * 100000 + DigitVal(s[5]) * 10000 + DigitVal(s[6]) * 1000
                    + DigitVal(s[7]) * 100 + DigitVal(s[8]) * 10 + DigitVal(s[9])
           ELSE 0)

IndexEntries(dir) == IF IndexName \in DOMAIN dir THEN dir[IndexName].entries ELSE <<>>

\* C12: after every save_articles_index call that returns True, the array
\* in index.json runs from the newest created_at to the oldest, and every
\* entry index.json held before the call is still in it.
C12_IndexSortedKeepsEntries ==
    [][index_calls' = Append(index_calls, "True") =>
          LET old == IndexEntries(files)
              new == IndexEntries(files')
          IN  /\ \A i, j \in 1..Len(new) :
                    i < j => TimeOf(new[i].created_at) >= TimeOf(new[j].created_at)
              /\ \A i \in 1..Len(old) : \E j \in 1..Len(new) : new[j] = old[i]]_vars

\* two calls returned True and left three entries: one stamped half a
\* second past 10, then one stamped 10 sharp, then one stamped half past 9
C12_Witness ==
    /\ index_calls = <<"True", "True">>
    /\ Len(IndexEntries(files)) = 3
    /\ IndexEntries(files)[1].created_at = isoformat([sec |-> 10, micro |-> 500000])
    /\ IndexEntries(files)[2].created_at = isoformat([sec |-> 10, micro |-> 0])
    /\ IndexEntries(files)[3].created_at = isoformat([sec |-> 9, micro |-> 500000])

(***************************************************************************)
(* optimize_adsense.py: find_insertion_points and optimize_ad_placement.   *)
(* A document is the sequence of its paragraph-level elements, in document *)
(* order; the ad containers the code inserts are elements of their own.    *)
(***************************************************************************)
\* soup.find_all(['p', 'h2', 'h3', 'ul', 'ol']) in optimize_ad_placement
BlockTags == {"p", "h2", "h3", "ul", "ol"}

\* soup.find_all(['p', 'h2', 'h3']) in find_insertion_points
ParagraphTags == {"p", "h2", "h3"}

Block(tag) == [tag |-> tag, slot |-> "none"]

\* create_adsense_code(client_id, slots[slot], ...): a div of class adsense-ad
AdContainer(slot) == [tag |-> "adsense-ad", slot |-> slot]

IsBlock(node) == node.tag \in BlockTags

Slots == {"header", "in_article", "sidebar"}

\* the longest article of paragraphs alone
MaxParagraphs == 12

\* the documents of up to MaxBlocks elements, and the longer ones made of
\* paragraphs alone
Documents ==
    UNION {[1..n -> {Block(t) : t \in BlockTags}] : n \in 0..MaxBlocks}
        \cup {[i \in 1..n |-> Block("p")] : n \in (MaxBlocks + 1)..MaxParagraphs}

\* adsense_config: with or without a client_id, with any of the three slots
AdConfigs == [client_id : BOOLEAN, slots : SUBSET Slots]

\* insertion points with the last one at the end of the block list
find_insertion_points_at_end(html) ==
    LET total_blocks == Cardinality({i \in DOMAIN html : html[i].tag \in ParagraphTags})
    IN  IF total_blocks < 3
        THEN [after_intro |-> 0, mid_content |-> 0, before_conclusion |-> 0]
        ELSE [after_intro |-> Min2(2, total_blocks \div 4),
              mid_content |-> total_blocks \div 2,
              before_conclusion |-> total_blocks]

find_insertion_points(html) ==
    LET total_blocks == Cardinality({i \in DOMAIN html : html[i].tag \in ParagraphTags})
    IN  IF total_blocks < 3
        THEN [after_intro |-> 0, mid_content |-> 0, before_conclusion |-> 0]
        ELSE [after_intro |-> Min2(2, total_blocks \div 4),
              mid_content |-> total_blocks \div 2,
              \* int(total_blocks * 0.85)
              before_conclusion |-> (total_blocks * 85) \div 100]

\* positions_to_insert, in the order the code appends to it
positions_to_insert(slots, points) ==
    (IF "sidebar" \in slots
     THEN <<[position |-> points.before_conclusion, slot |-> "sidebar"]>> ELSE <<>>)
    \o (IF "in_article" \in slots
        THEN <<[position |-> points.mid_content, slot |-> "in_article"]>> ELSE <<>>)
    \o (IF "header" \in slots
        THEN <<[position |-> points.after_intro, slot |-> "header"]>> ELSE <<>>)

\* one step of positions_to_insert.sort(key=position, reverse=True)
InsertByPositionDesc(sorted, x) ==
    LET n == Cardinality({i \in 1..Len(sorted) : sorted[i].position >= x.position})
    IN  SubSeq(sorted, 1, n) \o <<x>> \o SubSeq(sorted, n + 1, Len(sorted))

RECURSIVE SortByPositionDesc(_)
SortByPositionDesc(s) ==
    IF s = <<>> THEN <<>>
    ELSE InsertByPositionDesc(SortByPositionDesc(SubSeq(s, 1, Len(s) - 1)), s[Len(s)])

\* the place in doc of blocks[position]
PlaceOfBlock(doc, position) ==
    CHOOSE i \in DOMAIN doc :
        /\ IsBlock(doc[i])
        /\ Cardinality({j \in 1..i : IsBlock(doc[j])}) = position + 1

\* blocks[position].insert_after(ad_soup)
insert_after(doc, position, node) ==
    LET i == PlaceOfBlock(doc, position)
    IN  SubSeq(doc, 1, i) \o <<node>> \o SubSeq(doc, i + 1, Len(doc))

RECURSIVE InsertAds(_, _, _)
\* for position, ad_code in positions_to_insert: if position < len(blocks): ...
InsertAds(doc, todo, nblocks) ==
    IF todo = <<>> THEN doc
    ELSE InsertAds(IF Head(todo).position < nblocks
                   THEN insert_after(doc, Head(todo).position, AdContainer(Head(todo).slot))
                   ELSE doc,
                   Tail(todo), nblocks)

optimize_ad_placement(article_html, adsense_config) ==
    LET blocks == {i \in DOMAIN article_html : IsBlock(article_html[i])}
    IN  IF ~adsense_config.client_id THEN article_html
        ELSE IF Cardinality(blocks) < 3 THEN article_html
        ELSE InsertAds(article_html,
                       SortByPositionDesc(positions_to_insert(
                           adsense_config.slots, find_insertion_points(article_html))),
                       Cardinality(blocks))

\* main: article['content'] = optimize_ad_placement(article['content'], adsense_config)
OptimizeAdPlacement ==
    /\ ad.pc = "start"
    /\ ad' = [ad EXCEPT !.pc = "done",
                        !.optimized_html = optimize_ad_placement(ad.article_html,
                                                                 ad.adsense_config)]
    /\ UNCHANGED <<trendVars, slugVars, dbVars, fileVars, genVars, retry, main, lateVars>>

NextAds == OptimizeAdPlacement

InitAds ==
    /\ ad \in [pc : {"start"}, article_html : Documents, adsense_config : AdConfigs,
               optimized_html : {<<>>}]
    /\ TrendOff
    /\ SlugOff
    /\ DbOff
    /\ FilesOff
    /\ GenOff
    /\ retry = "off"
    /\ main = "off"
    /\ LateOff

SpecAds == InitAds /\ [][NextAds]_vars

(***************************************************************************)
(* Properties of optimize_ad_placement.                                    *)
(***************************************************************************)
\* the places of the ad containers in a document
AdPlaces(doc) == {i \in DOMAIN doc : doc[i].tag = "adsense-ad"}

\* the slots of the ad containers of a document, in document order
AdSlotsInOrder(doc) ==
    LET IsAd(node) == node.tag = "adsense-ad"
        ads == SelectSeq(doc, IsAd)
    IN  [i \in DOMAIN ads |-> ads[i].slot]

\* C13: a document of exactly 4 paragraph-level blocks (p, h2, h3, ul, ol in
\* any mix) and a config with a client_id and the slots header, in_article
\* and sidebar give exactly 3 ad containers, each directly after a block (so
\* after 3 different blocks), in the order header, in-article, sidebar.
C13_ThreeAdsAfterDistinctBlocks ==
    (/\ ad.pc = "done"
     /\ Len(ad.article_html) = 4
     /\ ad.adsense_config = [client_id |-> TRUE, slots |-> Slots])
    => /\ Cardinality(AdPlaces(ad.optimized_html)) = 3
       /\ \A i \in AdPlaces(ad.optimized_html) :
             i > 1 /\ IsBlock(ad.optimized_html[i - 1])
       /\ AdSlotsInOrder(ad.optimized_html) = <<"header", "in_article", "sidebar">>

(***************************************************************************)
(* generate_content.py: _is_similar.                                       *)
(***************************************************************************)
\* _STOPWORDS
STOPWORDS ==
    {<<"a">>, <<"a", "n">>, <<"t", "h", "e">>, <<"i", "s">>,
     <<"a", "r", "e">>, <<"w", "a", "s">>, <<"w", "e", "r", "e">>,
     <<"b", "e">>, <<"b", "e", "e", "n">>, <<"b", "e", "i", "n", "g">>,
     <<"h", "a", "v", "e">>, <<"h", "a", "s">>, <<"h", "a", "d">>,
     <<"d", "o">>, <<"d", "o", "e", "s">>, <<"d", "i", "d">>,
     <<"w", "i", "l", "l">>, <<"w", "o", "u", "l", "d">>,
     <<"c", "o", "u", "l", "d">>, <<"s", "h", "o", "u", "l", "d">>,
     <<"m", "a", "y">>, <<"m", "i", "g", "h", "t">>, <<"c", "a", "n">>,
     <<"s", "h", "a", "l", "l">>, <<"t", "o">>, <<"o", "f">>,
     <<"i", "n">>, <<"f", "o", "r">>, <<"o", "n">>,
     <<"w", "i", "t", "h">>, <<"a", "t">>, <<"b", "y">>,
     <<"f", "r", "o", "m">>, <<"a", "s">>, <<"i", "n", "t", "o">>,
     <<"a", "b", "o", "u", "t">>, <<"b", "e", "t", "w", "e", "e", "n">>,
     <<"t", "h", "r", "o", "u", "g", "h">>, <<"a", "f", "t", "e", "r">>,
     <<"b", "e", "f", "o", "r", "e">>, <<"d", "u", "r", "i", "n", "g">>,
     <<"a", "n", "d">>, <<"b", "u", "t">>, <<"o", "r">>,
     <<"n", "o", "t">>, <<"n", "o">>, <<"n", "o", "r">>, <<"s", "o">>,
     <<"y", "e", "t">>, <<"b", "o", "t", "h">>,
     <<"e", "i", "t", "h", "e", "r">>,
     <<"n", "e", "i", "t", "h", "e", "r">>, <<"e", "a", "c", "h">>,
     <<"e", "v", "e", "r", "y">>, <<"a", "l", "l">>, <<"a", "n", "y">>,
     <<"f", "e", "w">>, <<"m", "o", "r", "e">>, <<"m", "o", "s", "t">>,
     <<"o", "t", "h", "e", "r">>, <<"s", "o", "m", "e">>,
     <<"s", "u", "c", "h">>, <<"t", "h", "a", "n">>, <<"t", "o", "o">>,
     <<"v", "e", "r", "y">>, <<"j", "u", "s", "t">>,
     <<"b", "e", "c", "a", "u", "s", "e">>, <<"i", "f">>,
     <<"w", "h", "e", "n">>, <<"h", "o", "w">>, <<"w", "h", "a", "t">>,
     <<"w", "h", "y">>, <<"w", "h", "e", "r", "e">>, <<"w", "h", "o">>,
     <<"w", "h", "i", "c", "h">>, <<"t", "h", "a", "t">>,
     <<"t", "h", "i", "s">>, <<"i", "t">>, <<"i", "t", "s">>,
     <<"y", "o", "u">>, <<"y", "o", "u", "r">>, <<"w", "e">>,
     <<"o", "u", "r">>, <<"t", "h", "e", "y">>,
     <<"t", "h", "e", "i", "r">>, <<"t", "h", "e", "m">>, <<"h", "e">>,
     <<"s", "h", "e">>, <<"h", "i", "s">>, <<"h", "e", "r">>,
     <<"m", "y">>, <<"m", "e">>, <<"u", "p">>, <<"o", "u", "t">>,
     <<"n", "e", "w">>}

\* extract_words: the runs of [a-z0-9] of the text as given, those of one
\* character and the stop words left out
extract_words(text) ==
    {w \in FindAllAlnum(text) : Len(w) > 1 /\ w \notin STOPWORDS}

\* similar_words without the subset shortcut
SimilarWordsNoSubset(words_a, words_b, threshold) ==
    /\ words_a # {}
    /\ words_b # {}
    /\ 100 * Cardinality(words_a \cap words_b) >= threshold * Cardinality(words_a \cup words_b)

\* the body of _is_similar on the two word sets; threshold in hundredths
similar_words(words_a, words_b, threshold) ==
    IF words_a = {} \/ words_b = {} THEN FALSE
    ELSE IF words_a \subseteq words_b \/ words_b \subseteq words_a THEN TRUE
    ELSE 100 * Cardinality(words_a \cap words_b)
             >= threshold * Cardinality(words_a \cup words_b)

is_similar(text_a, text_b, threshold) ==
    similar_words(extract_words(text_a), extract_words(text_b), threshold)

\* the thresholds of the call sites (0.35, the default, and 0.4), in hundredths
Thresholds == {35, 40}

\* texts for _is_similar: word sets that include one another, that overlap
\* by 2/5, by 3/8 and by 1/4, texts of stop words only, capitals, digits
SimAiChips == <<"a", "i", " ", "c", "h", "i", "p", "s">>
SimAiChipsBoom == <<"a", "i", " ", "c", "h", "i", "p", "s", " ", "b", "o", "o", "m">>
SimTheNew == <<"t", "h", "e", " ", "n", "e", "w">>
SimEmpty == <<>>
SimIphone5 == <<"i", "p", "h", "o", "n", "e", " ", "5">>
SimIphone6 == <<"i", "p", "h", "o", "n", "e", " ", "6">>
SimUpper == <<"A", "I", " ", "C", "h", "i", "p", "s">>
SimFour == <<"a", "i", " ", "c", "h", "i", "p", "s", " ", "r", "u", "s", "t", " ", "w", "a", "s", "m">>
SimFive == <<"a", "i", " ", "c", "h", "i", "p", "s", " ", "b", "o", "o", "m", " ", "r", "u", "s", "t", " ", "w", "a", "s", "m">>
SimSix == <<"a", "i", " ", "c", "h", "i", "p", "s", " ", "b", "o", "o", "m", " ", "g", "o", "2", " ", "z", "i", "g", " ", "n", "i", "m">>
SimAiRust == <<"a", "i", " ", "r", "u", "s", "t">>

SimWordAi == <<"a", "i">>
SimWordChips == <<"c", "h", "i", "p", "s">>
SimWordThe == <<"t", "h", "e">>
SimWordFive == <<"5">>

SimVocabulary == {SimWordAi, SimWordChips, SimWordThe, SimWordFive}

RECURSIVE JoinWords(_)
\* ' '.join(words)
JoinWords(words) ==
    IF words = <<>> THEN <<>>
    ELSE IF Len(words) = 1 THEN words[1]
    ELSE words[1] \o <<" ">> \o JoinWords(Tail(words))

\* the texts of up to MaxWords words of the vocabulary, and the ones above
SimTexts ==
    {JoinWords(ws) : ws \in UNION {[1..n -> SimVocabulary] : n \in 0..MaxWords}}
        \cup {SimAiChips, SimAiChipsBoom, SimTheNew, SimEmpty, SimIphone5, SimIphone6,
              SimUpper, SimFour, SimFive, SimSix, SimAiRust}

\* _is_similar(text_a, text_b, threshold) is called and returns
IsSimilar ==
    /\ sim.pc = "start"
    /\ sim' = [sim EXCEPT !.pc = "done",
                          !.result = is_similar(sim.text_a, sim.text_b, sim.threshold)]
    /\ UNCHANGED <<gen, ga, sd, trendVars, slugVars, dbVars, fileVars, ad, retry, main, lateVars>>

NextSimilar == IsSimilar

InitSimilar ==
    /\ sim \in [pc : {"start"}, text_a : SimTexts, text_b : SimTexts,
                threshold : Thresholds, result : {FALSE}]
    /\ gen = "off"
    /\ ga = "off"
    /\ sd = "off"
    /\ TrendOff
    /\ SlugOff
    /\ DbOff
    /\ FilesOff
    /\ ad = "off"
    /\ retry = "off"
    /\ main = "off"
    /\ LateOff

SpecSimilar == InitSimilar /\ [][NextSimilar]_vars

(***************************************************************************)
(* Properties of _is_similar.                                              *)
(***************************************************************************)
\* the tokens of a text with the stop words filtered out
StopwordFilteredTokens(text) == FindAllAlnum(text) \ STOPWORDS

\* the tokens of more than one character with the stop words filtered out
LongStopwordFilteredTokens(text) ==
    {w \in FindAllAlnum(text) \ STOPWORDS : Len(w) >= 2}

\* the stated rule on two token sets
StatedSimilar(A, B, threshold) ==
    /\ A # {}
    /\ B # {}
    /\ \/ A \subseteq B
       \/ B \subseteq A
       \/ Cardinality(A \cap B) * 100 >= threshold * Cardinality(A \cup B)

\* C15 as stated: _is_similar(a, b, t) is True exactly when both texts have
\* a non-empty set of stopword-filtered tokens and one set contains the
\* other or |A n B| / |A u B| >= t; it is False when either set is empty;
\* and _is_similar(a, b, t) = _is_similar(b, a, t).
C15_SimilarAsStated ==
    sim.pc = "done" =>
        /\ sim.result = StatedSimilar(StopwordFilteredTokens(sim.text_a),
                                      StopwordFilteredTokens(sim.text_b), sim.threshold)
        /\ sim.result = is_similar(sim.text_b, sim.text_a, sim.threshold)

\* C15 amended: the same with the token sets taken as the tokens of more
\* than one character that are not stop words.
C15_SimilarLongTokens ==
    sim.pc = "done" =>
        /\ sim.result = StatedSimilar(LongStopwordFilteredTokens(sim.text_a),
                                      LongStopwordFilteredTokens(sim.text_b), sim.threshold)
        /\ (LongStopwordFilteredTokens(sim.text_a) = {}
               \/ LongStopwordFilteredTokens(sim.text_b) = {}) => ~sim.result
        /\ sim.result = is_similar(sim.text_b, sim.text_a, sim.threshold)

\* 'iphone 5' and 'iphone 6' were found similar at 0.35: the one-character
\* tokens 5 and 6 do not count, and the sets left are equal
C15_Witness ==
    /\ sim.pc = "done"
    /\ sim.text_a = SimIphone5
    /\ sim.text_b = SimIphone6
    /\ sim.threshold = 35
    /\ sim.result

(***************************************************************************)
(* generate_content.py: _is_semantic_duplicate and                         *)
(* generate_multiple_articles.                                             *)
(***************************************************************************)
\* str.upper() on one character
UpperChar(c) ==
    IF c \in Range(LowerChars)
    THEN UpperChars[CHOOSE i \in DOMAIN LowerChars : LowerChars[i] = c]
    ELSE c

\* str.upper()
Upper(s) == [i \in 1..Len(s) |-> UpperChar(s[i])]

ReplyYes == <<"Y", "E", "S">>
ReplyYesNewline == <<"Y", "e", "s", "\n">>
ReplyNo == <<"N", "O">>
ReplyYesAnd == <<"Y", "E", "S", ",", " ", "a", "i">>

\* what a provider call can come to: an exception, or a reply text
NotCalled == [called |-> FALSE, ok |-> FALSE, text |-> <<>>]
Raised == [called |-> TRUE, ok |-> FALSE, text |-> <<>>]
Replied(text) == [called |-> TRUE, ok |-> TRUE, text |-> text]
ProviderOutcomes ==
    {Raised} \cup {Replied(t) : t \in {ReplyYes, ReplyYesNewline, ReplyNo, ReplyYesAnd}}

\* resp_text.strip().upper() == 'YES'
AnswerIsYes(resp_text) == Upper(Strip(resp_text)) = ReplyYes

\* _is_semantic_duplicate returning True when both providers fail
SemanticDuplicateFailClosed(api, cli) ==
    IF api.ok
    THEN [api |-> api, cli |-> NotCalled, result |-> AnswerIsYes(api.text)]
    ELSE IF cli.ok
         THEN [api |-> api, cli |-> cli, result |-> AnswerIsYes(cli.text)]
         ELSE [api |-> api, cli |-> cli, result |-> TRUE]

\* _is_semantic_duplicate: the hosted API first, the CLI if the API raised;
\* api and cli are what the two calls come to if they are made
is_semantic_duplicate(api, cli) ==
    IF api.ok
    THEN [api |-> api, cli |-> NotCalled, result |-> AnswerIsYes(api.text)]
    ELSE IF cli.ok
         THEN [api |-> api, cli |-> cli, result |-> AnswerIsYes(cli.text)]
         ELSE [api |-> api, cli |-> cli, result |-> FALSE]

\* most topics handed to generate_multiple_articles
MaxTopics == 3

\* articles_count
MaxArticles == 2

TopicRustWasm == <<"R", "u", "s", "t", " ", "W", "a", "s", "m">>

GenTopics == {TopicRustWasm, SimFive, SimIphone5, SimAiRust}

\* str.lower() on the topics and titles of the batch, worked out once
LowerTable == Enumerated({<<t, Lower(t)>> : t \in GenTopics \cup {SimSix}})

LowerOf(text) == (CHOOSE p \in LowerTable : p[1] = text)[2]

\* the lowercased texts that generate_multiple_articles compares
GenTexts == {LowerOf(t) : t \in GenTopics} \cup {SimSix, SimIphone6}

\* the calls of _is_similar on the texts of GenTexts that return True,
\* worked out once
SimilarTable ==
    Enumerated({p \in GenTexts \X GenTexts \X Thresholds : is_similar(p[1], p[2], p[3])})

Similar(text_a, text_b, threshold) == <<text_a, text_b, threshold>> \in SimilarTable

\* the topic lists: get_all_trending_topics hands over no keyword twice
TopicLists ==
    Enumerated({topics \in UNION {[1..n -> GenTopics] : n \in 0..MaxTopics} :
                   \A i, j \in 1..Len(topics) : i # j => topics[i] # topics[j]})

\* the least word_count that is kept
MinWordCount == 500

\* what generate_article can come to for a topic: {} or an article whose
\* title is the topic (the fallback of _parse_response) or another text
ArticleFailed == [title |-> <<>>, word_count |-> 0, trending_keyword |-> <<>>]
GeneratedArticles(topic) ==
    {ArticleFailed} \cup
    [title : {topic, SimSix}, word_count : {MinWordCount - 1, MinWordCount},
     trending_keyword : {topic}]

\* the three similarity tests, the titles compared at 0.4 as well
IsDuplicateTopicOneThreshold(topic_lower, existing_keywords, existing_titles, used_topics) ==
    \/ \E existing_kw \in existing_keywords : Similar(topic_lower, existing_kw, 40)
    \/ \E existing_title \in existing_titles : Similar(topic_lower, existing_title, 40)
    \/ \E used \in used_topics : Similar(topic_lower, used, 40)

\* is_duplicate after the three loops
IsDuplicateTopic(topic_lower, existing_keywords, existing_titles, used_topics) ==
    \/ \E existing_kw \in existing_keywords : Similar(topic_lower, existing_kw, 40)
    \/ \E existing_title \in existing_titles : Similar(topic_lower, existing_title, 35)
    \/ \E used \in used_topics : Similar(topic_lower, used, 40)

\* the loop going on whatever the number of articles
LoopRunsUncounted ==
    /\ gen.pc = "loop"
    /\ gen.topic_index < Len(gen.topics)

\* while len(articles) < articles_count and topic_index < len(topics)
LoopRuns ==
    /\ gen.pc = "loop"
    /\ Len(gen.articles) < gen.articles_count
    /\ gen.topic_index < Len(gen.topics)

CurrentTopic == gen.topics[gen.topic_index + 1]

Skips ==
    \/ LowerOf(CurrentTopic) \in gen.used_topics
    \/ IsDuplicateTopic(LowerOf(CurrentTopic), gen.existing_keywords,
                        gen.existing_titles, gen.used_topics)

\* article['source_data'] = topic_data; an item of the topic list is
\* modelled by its keyword
WithSource(article, topic_data) ==
    [title |-> article.title, word_count |-> article.word_count,
     trending_keyword |-> article.trending_keyword, source_data |-> topic_data]

\* one turn of the loop that ends at a continue before generate_article
SkipTopic ==
    /\ LoopRuns
    /\ Skips
    /\ gen' = [gen EXCEPT !.topic_index = @ + 1,
                          !.skipped = @ + 1,
                          !.last = [step |-> "skip", topic |-> CurrentTopic]]
    /\ UNCHANGED <<sd, ga, sim, trendVars, slugVars, dbVars, fileVars, ad, retry, main, lateVars>>

\* one turn of the loop that calls generate_article
GenerateTopic(article, api, cli) ==
    /\ LoopRuns
    /\ ~Skips
    /\ LET topic == CurrentTopic
           asked == [gen EXCEPT !.topic_index = @ + 1, !.calls = @ + 1]
           checked == is_semantic_duplicate(api, cli)
       IN  IF article = ArticleFailed
           THEN /\ gen' = [asked EXCEPT !.last = [step |-> "failed", topic |-> topic]]
                /\ sd' = sd
           ELSE IF article.word_count < MinWordCount
           THEN /\ gen' = [asked EXCEPT !.last = [step |-> "short", topic |-> topic]]
                /\ sd' = sd
           ELSE IF gen.existing_titles # {}
           THEN /\ sd' = [api |-> checked.api, cli |-> checked.cli,
                          result |-> checked.result, calls |-> sd.calls + 1]
                /\ gen' = IF checked.result
                          THEN [asked EXCEPT !.last = [step |-> "semantic", topic |-> topic]]
                          ELSE [asked EXCEPT
                                   !.articles = Append(@, WithSource(article, topic)),
                                   !.used_topics = @ \cup {LowerOf(topic)},
                                   !.existing_titles = @ \cup {LowerOf(article.title)},
                                   !.last = [step |-> "accepted", topic |-> topic]]
           ELSE /\ sd' = sd
                /\ gen' = [asked EXCEPT
                              !.articles = Append(@, WithSource(article, topic)),
                              !.used_topics = @ \cup {LowerOf(topic)},
                              !.existing_titles = @ \cup {LowerOf(article.title)},
                              !.last = [step |-> "accepted", topic |-> topic]]
    /\ UNCHANGED <<ga, sim, trendVars, slugVars, dbVars, fileVars, ad, retry, main, lateVars>>

\* the loop ends and the articles are returned
ReturnArticles ==
    /\ gen.pc = "loop"
    /\ ~LoopRuns
    /\ gen' = [gen EXCEPT !.pc = "done"]
    /\ UNCHANGED <<sd, ga, sim, trendVars, slugVars, dbVars, fileVars, ad, retry, main, lateVars>>

NextBatch ==
    \/ SkipTopic
    \/ /\ LoopRuns
       /\ ~Skips
       /\ \E article \in GeneratedArticles(CurrentTopic), api \in ProviderOutcomes :
             \E cli \in (IF api.ok THEN {NotCalled} ELSE ProviderOutcomes) :
                 GenerateTopic(article, api, cli)
    \/ ReturnArticles

\* the titles and keywords loaded from the database and the local index,
\* lowercased as the code lowercases them
InitBatch ==
    /\ \E topics \in TopicLists, titles \in {{}, {SimSix}}, keywords \in {{}, {SimIphone6}} :
          gen = [pc |-> "loop", topics |-> topics, topic_index |-> 0,
                 articles_count |-> MaxArticles, articles |-> <<>>,
                 used_topics |-> {}, existing_titles |-> titles,
                 existing_keywords |-> keywords, calls |-> 0, skipped |-> 0,
                 last |-> [step |-> "none", topic |-> <<>>]]
    /\ sd = [api |-> NotCalled, cli |-> NotCalled, result |-> FALSE, calls |-> 0]
    /\ ga = "off"
    /\ sim = "off"
    /\ TrendOff
    /\ SlugOff
    /\ DbOff
    /\ FilesOff
    /\ ad = "off"
    /\ retry = "off"
    /\ main = "off"
    /\ LateOff

SpecBatch == InitBatch /\ [][NextBatch]_vars

(***************************************************************************)
(* Properties of generate_multiple_articles and _is_semantic_duplicate.    *)
(***************************************************************************)
\* the topic of the call of generate_article made in this step
LlmAsked == gen'.calls > gen.calls

\* C14: the LLM is never asked for a topic whose lowercased text
\* _is_similar to an existing trending keyword (0.4), to an existing or
\* already generated title (0.35) or to a topic accepted earlier in the
\* batch (0.4); and the lowercased topics of the returned articles are
\* pairwise not similar at 0.4.
C14_NoSimilarTopicGenerated ==
    [][/\ LlmAsked =>
            LET topic_lower == Lower(gen'.last.topic)
            IN  /\ \A existing_kw \in gen.existing_keywords :
                       ~Similar(topic_lower, existing_kw, 40)
                /\ \A existing_title \in gen.existing_titles :
                       ~Similar(topic_lower, existing_title, 35)
                /\ \A used \in gen.used_topics : ~Similar(topic_lower, used, 40)
       /\ gen'.pc = "done" =>
            \A i, j \in 1..Len(gen'.articles) :
                i # j => ~Similar(Lower(gen'.articles[i].trending_keyword),
                                  Lower(gen'.articles[j].trending_keyword), 40)]_vars

\* two articles were returned and a topic was skipped on the way
C14_Witness ==
    /\ gen.pc = "done"
    /\ Len(gen.articles) = 2
    /\ gen.skipped >= 1
    /\ gen.existing_titles # {}
    /\ gen.existing_keywords # {}

SemanticCheckMade == sd'.calls > sd.calls

\* C16 as stated: _is_semantic_duplicate returns True only when a provider
\* call succeeded and its reply is exactly YES, and returns False whenever
\* the hosted API call and the CLI call both fail; an article is discarded
\* as a semantic duplicate only when the check returned True.
C16_TrueOnlyOnExactYes ==
    [][SemanticCheckMade =>
          /\ sd'.result => \E p \in {sd'.api, sd'.cli} : p.ok /\ p.text = ReplyYes
          /\ (~sd'.api.ok /\ ~sd'.cli.ok) => ~sd'.result
          /\ gen'.last.step = "semantic" => sd'.result]_vars

\* C16 amended: True only when a provider call succeeded and its reply,
\* stripped of surrounding white space and uppercased, is YES; False when
\* both calls fail; an article of 500 words or more is left out of the
\* result only when the check was made and returned True.
C16_TrueOnlyOnYesAnswer ==
    [][/\ SemanticCheckMade =>
            /\ sd'.result =>
                  \E p \in {sd'.api, sd'.cli} : p.called /\ p.ok /\ Upper(Strip(p.text)) = ReplyYes
            /\ (sd'.api.called /\ ~sd'.api.ok /\ sd'.cli.called /\ ~sd'.cli.ok) => ~sd'.result
       /\ gen'.last.step = "semantic" /\ LlmAsked => SemanticCheckMade /\ sd'.result
       /\ SemanticCheckMade /\ ~sd'.result => gen'.last.step = "accepted"]_vars

\* both providers failed and the article was kept
C16_Witness ==
    /\ sd.calls >= 1
    /\ sd.api.called
    /\ ~sd.api.ok
    /\ sd.cli.called
    /\ ~sd.cli.ok
    /\ ~sd.result
    /\ gen.last.step = "accepted"

(***************************************************************************)
(* generate_content.py: generate_article.                                  *)
(***************************************************************************)
Err429 == <<"4", "2", "9", " ", "T", "o", "o", " ", "M", "a", "n", "y">>
ErrQuota == <<"Q", "u", "o", "t", "a", " ", "e", "x", "c", "e", "e", "d", "e", "d">>
ErrRate == <<"R", "a", "t", "e", " ", "l", "i", "m", "i", "t">>
ErrGenerate == <<"f", "a", "i", "l", "e", "d", " ", "t", "o", " ", "g", "e", "n", "e", "r", "a", "t", "e">>
ErrTimeout == <<"t", "i", "m", "e", "o", "u", "t">>
Err500 == <<"5", "0", "0", " ", "I", "n", "t", "e", "r", "n", "a", "l">>

\* str(e) of the exceptions a provider call raises
ErrorMessages == {Err429, ErrQuota, ErrRate, ErrGenerate, ErrTimeout, Err500}

NoError == <<>>

\* a provider call returns a response (NoError) or raises
CallOutcomes == {NoError} \cup ErrorMessages

\* range(3)
ApiAttempts == 3

\* wait = 30 * attempt
RetryWait == 30

\* time.sleep(5) after a reply of the API
ApiPause == 5

\* every exception taken for a rate limit
AnyErrorIsRateLimit(message) == TRUE

\* '429' in str(e) or 'quota' in str(e).lower() or 'rate' in str(e).lower()
IsRateLimit(message) ==
    \/ IsSubstring(<<"4", "2", "9">>, message)
    \/ IsSubstring(<<"q", "u", "o", "t", "a">>, Lower(message))
    \/ IsSubstring(<<"r", "a", "t", "e">>, Lower(message))

CliCall(error) == [ev |-> "cli", error |-> error, seconds |-> 0]
ApiCall(error) == [ev |-> "api", error |-> error, seconds |-> 0]
Sleep(seconds) == [ev |-> "sleep", error |-> NoError, seconds |-> seconds]

\* if _gemini_cli_path: one call of the CLI; its article is returned
TryCli(outcome) ==
    /\ ga.pc = "cli"
    /\ ga.cli_path
    /\ ga' = IF outcome = NoError
             THEN [ga EXCEPT !.pc = "done", !.result = "gemini-cli",
                             !.log = Append(@, CliCall(outcome))]
             ELSE [ga EXCEPT !.pc = "api", !.log = Append(@, CliCall(outcome))]
    /\ UNCHANGED <<gen, sd, sim, trendVars, slugVars, dbVars, fileVars, ad, retry, main, lateVars>>

\* no CLI installed
NoCli ==
    /\ ga.pc = "cli"
    /\ ~ga.cli_path
    /\ ga' = [ga EXCEPT !.pc = "api"]
    /\ UNCHANGED <<gen, sd, sim, trendVars, slugVars, dbVars, fileVars, ad, retry, main, lateVars>>

\* one turn of  for attempt in range(3)
ApiAttempt(outcome) ==
    /\ ga.pc = "api"
    /\ ga.api_key
    /\ ga.attempt < ApiAttempts
    /\ LET waited == IF ga.attempt > 0
                     THEN Append(ga.log, Sleep(RetryWait * ga.attempt))
                     ELSE ga.log
           called == Append(waited, ApiCall(outcome))
       IN  ga' = IF outcome = NoError
                 THEN [ga EXCEPT !.pc = "done", !.result = "gemini-api",
                                 !.log = Append(called, Sleep(ApiPause))]
                 ELSE IF IsRateLimit(outcome)
                 THEN [ga EXCEPT !.attempt = @ + 1, !.log = called]
                 ELSE [ga EXCEPT !.pc = "done", !.result = "empty", !.log = called]
    /\ UNCHANGED <<gen, sd, sim, trendVars, slugVars, dbVars, fileVars, ad, retry, main, lateVars>>

\* no API key or library, or the three attempts are used up: return {}
NoProvider ==
    /\ ga.pc = "api"
    /\ ~ga.api_key \/ ga.attempt >= ApiAttempts
    /\ ga' = [ga EXCEPT !.pc = "done", !.result = "empty"]
    /\ UNCHANGED <<gen, sd, sim, trendVars, slugVars, dbVars, fileVars, ad, retry, main, lateVars>>

NextGenerate ==
    \/ \E outcome \in CallOutcomes : TryCli(outcome)
    \/ NoCli
    \/ \E outcome \in CallOutcomes : ApiAttempt(outcome)
    \/ NoProvider

InitGenerate ==
    /\ ga \in [pc : {"cli"}, cli_path : BOOLEAN, api_key : BOOLEAN, attempt : {0},
               result : {"none"}, log : {<<>>}]
    /\ gen = "off"
    /\ sd = "off"
    /\ sim = "off"
    /\ TrendOff
    /\ SlugOff
    /\ DbOff
    /\ FilesOff
    /\ ad = "off"
    /\ retry = "off"
    /\ main = "off"
    /\ LateOff

SpecGenerate == InitGenerate /\ [][NextGenerate]_vars

(***************************************************************************)
(* Properties of generate_article.                                         *)
(***************************************************************************)
EventsAt(ev) == {i \in 1..Len(ga.log) : ga.log[i].ev = ev}

\* the error is a rate-limit error: it mentions 429, quota or rate
MentionsRateLimit(message) ==
    \E word \in {<<"4", "2", "9">>, <<"q", "u", "o", "t", "a">>, <<"r", "a", "t", "e">>} :
        IsSubstring(word, Lower(message))

\* the number of API calls made up to entry i of the log
ApiCallsUpTo(i) == Cardinality({j \in EventsAt("api") : j <= i})

\* C17: the CLI is tried first and at most once; the API is called only if
\* the CLI is missing or its call failed, and at most 3 times; a further
\* attempt comes only after a rate-limit error and right after a wait of
\* 30 s times the attempt number; any other API error, or 3 rate-limit
\* errors, makes generate_article return an empty result.
C17_ProviderFallback ==
    /\ Cardinality(EventsAt("cli")) <= 1
    /\ \A i \in EventsAt("cli") : i = 1
    /\ \A i \in EventsAt("api") :
          \/ ~ga.cli_path
          \/ ga.log[1].ev = "cli" /\ ga.log[1].error # NoError
    /\ Cardinality(EventsAt("api")) <= 3
    /\ \A i \in EventsAt("api") :
          ApiCallsUpTo(i) > 1 =>
              /\ ga.log[i - 1] = Sleep(30 * (ApiCallsUpTo(i) - 1))
              /\ ga.log[i - 2].ev = "api"
              /\ MentionsRateLimit(ga.log[i - 2].error)
    /\ \A i \in EventsAt("api") :
          (ga.log[i].error # NoError /\ ~MentionsRateLimit(ga.log[i].error)) =>
              ga.pc = "done" /\ ga.result = "empty" /\ i = Len(ga.log)
    /\ (Cardinality({i \in EventsAt("api") : MentionsRateLimit(ga.log[i].error)}) = 3
        /\ ga.pc = "done") => ga.result = "empty"

\* the CLI failed, the API hit the rate limit twice and answered at the
\* third attempt, after waits of 30 and 60 seconds
C17_Witness ==
    /\ ga.pc = "done"
    /\ ga.result = "gemini-api"
    /\ ga.cli_path
    /\ Cardinality(EventsAt("api")) = 3
    /\ Sleep(30) \in Range(ga.log)
    /\ Sleep(60) \in Range(ga.log)

(***************************************************************************)
(* database.py: _retry_operation.                                          *)
(***************************************************************************)
\* DatabaseClient.retry_delay, in seconds
retry_delay == 1

\* most calls of _retry_operation in a run
MaxOps == 3

\* what operation(*args, **kwargs) can do: return a value, raise an
\* APIError, raise another exception
OperationOutcomes ==
    [kind : {"ok"}, value : {"rows", "no rows"}]
        \cup [kind : {"api_error"}, value : {"timeout", "conflict"}]
        \cup [kind : {"error"}, value : {"ValueError"}]

NoOutcome == [kind |-> "none", value |-> "none"]

\* the same delay before every retry
BackoffDelayFixed(attempt) == retry_delay

\* delay = self.retry_delay * (2 ** attempt)
BackoffDelay(attempt) == retry_delay * (2 ^ attempt)

OperationCall(outcome) == [ev |-> "call", outcome |-> outcome, seconds |-> 0]
RetrySleep(seconds) == [ev |-> "sleep", outcome |-> NoOutcome, seconds |-> seconds]

\* _retry_operation(operation) is called
RetryOperation ==
    /\ retry.pc # "running"
    /\ retry.ops < MaxOps
    /\ retry' = [pc |-> "running", attempt |-> 0, log |-> <<>>,
                 last_exception |-> NoOutcome, result |-> NoOutcome,
                 ops |-> retry.ops + 1]
    /\ UNCHANGED <<trendVars, slugVars, dbVars, fileVars, ad, genVars, main, lateVars>>

\* one turn of  for attempt in range(self.max_retries), and the raise after
\* the loop when it was the last turn
RetryAttempt(outcome) ==
    /\ retry.pc = "running"
    /\ retry.attempt < max_retries
    /\ LET called == Append(retry.log, OperationCall(outcome))
       IN  retry' =
              IF outcome.kind = "ok"
              THEN [retry EXCEPT !.pc = "returned", !.result = outcome, !.log = called]
              ELSE IF outcome.kind = "api_error"
              THEN IF CanRetry(retry.attempt)
                   THEN [retry EXCEPT
                            !.attempt = @ + 1,
                            !.last_exception = outcome,
                            !.log = Append(called, RetrySleep(BackoffDelay(retry.attempt)))]
                   ELSE [retry EXCEPT
                            !.pc = "raised",
                            !.attempt = @ + 1,
                            !.last_exception = outcome,
                            !.result = outcome,
                            !.log = called]
              ELSE [retry EXCEPT !.pc = "raised", !.result = outcome, !.log = called]
    /\ UNCHANGED <<trendVars, slugVars, dbVars, fileVars, ad, genVars, main, lateVars>>

NextRetry ==
    \/ RetryOperation
    \/ \E outcome \in OperationOutcomes : RetryAttempt(outcome)

InitRetry ==
    /\ retry = [pc |-> "idle", attempt |-> 0, log |-> <<>>,
                last_exception |-> NoOutcome, result |-> NoOutcome, ops |-> 0]
    /\ TrendOff
    /\ SlugOff
    /\ DbOff
    /\ FilesOff
    /\ ad = "off"
    /\ GenOff
    /\ main = "off"
    /\ LateOff

SpecRetry == InitRetry /\ [][NextRetry]_vars

(***************************************************************************)
(* Properties of _retry_operation.                                         *)
(***************************************************************************)
CallsAt == {i \in 1..Len(retry.log) : retry.log[i].ev = "call"}

\* the number of the call at entry i of the log: 1, 2 or 3
CallNumber(i) == Cardinality({j \in CallsAt : j <= i})

\* C18: the operation is called at most 3 times; the result of the first
\* call that succeeds is returned; after a failure with an API error on
\* attempt i (i = 1, 2) the wait is 1 * 2^(i-1) seconds before the next
\* call, there is no wait after the third failure and the last API error
\* is raised; another error is raised at once without another call.
C18_RetryBackoff ==
    /\ Cardinality(CallsAt) <= 3
    /\ \A i \in CallsAt :
          LET outcome == retry.log[i].outcome
          IN  /\ outcome.kind = "ok" =>
                    /\ i = Len(retry.log)
                    /\ retry.pc = "returned"
                    /\ retry.result = outcome
              /\ (outcome.kind = "api_error" /\ CallNumber(i) < 3) =>
                    /\ i < Len(retry.log)
                    /\ retry.log[i + 1] = RetrySleep(2 ^ (CallNumber(i) - 1))
                    /\ retry.pc = "running" \/ (i + 2 <= Len(retry.log) /\ i + 2 \in CallsAt)
              /\ (outcome.kind = "api_error" /\ CallNumber(i) = 3) =>
                    /\ i = Len(retry.log)
                    /\ retry.pc = "raised"
                    /\ retry.result = outcome
              /\ outcome.kind = "error" =>
                    /\ i = Len(retry.log)
                    /\ retry.pc = "raised"
                    /\ retry.result = outcome
    /\ retry.pc = "returned" =>
          \A i \in CallsAt : i < Len(retry.log) => retry.log[i].outcome.kind # "ok"

\* three API errors: waits of 1 s and 2 s, and the third error is raised
C18_Witness ==
    /\ retry.pc = "raised"
    /\ Cardinality(CallsAt) = 3
    /\ retry.log[2] = RetrySleep(1)
    /\ retry.log[4] = RetrySleep(2)
    /\ Len(retry.log) = 5
    /\ retry.result.kind = "api_error"
    /\ retry.result # retry.log[1].outcome

(***************************************************************************)
(* main.py: main.                                                          *)
(***************************************************************************)
\* the steps after article generation
LaterSteps == {"classify", "images", "adsense", "save"}

\* what a step that hands back a list can do: raise, or return n items
ListOutcomes(most) == {[kind |-> "raised", n |-> 0]} \cup [kind : {"returned"}, n : 0..most]

\* a list taken for non-empty whatever it holds
NeverEmpty(n) == FALSE

\* not topics / not articles
IsEmptyList(n) == n = 0

\* sys.exit(status): SystemExit is not an Exception, no handler of main or
\* of the entry point catches it
SysExit(status) == [main EXCEPT !.pc = "exit", !.exit_status = status]

Ran(m, step) == [m EXCEPT !.steps = Append(@, step)]

\* validate_environment(): exits when no LLM provider or no database
ValidateEnvironment(ok) ==
    /\ main.pc = "validate"
    /\ main' = IF ok THEN [Ran(main, "validate") EXCEPT !.pc = "config"]
               ELSE Ran(SysExit(1), "validate")
    /\ UNCHANGED <<trendVars, slugVars, dbVars, fileVars, ad, genVars, retry, lateVars>>

\* load_config(args.config): exits when the file is missing or malformed
LoadConfig(ok) ==
    /\ main.pc = "config"
    /\ main' = IF ok THEN [Ran(main, "config") EXCEPT !.pc = "fetch"]
               ELSE Ran(SysExit(1), "config")
    /\ UNCHANGED <<trendVars, slugVars, dbVars, fileVars, ad, genVars, retry, lateVars>>

\* STEP 1: get_all_trending_topics
FetchTopics(outcome) ==
    /\ main.pc = "fetch"
    /\ main' = IF outcome.kind = "raised"
               THEN [Ran(SysExit(1), "fetch") EXCEPT !.fetch = "raised"]
               ELSE IF IsEmptyList(outcome.n)
               THEN [Ran(SysExit(1), "fetch") EXCEPT !.fetch = "returned", !.topics = outcome.n]
               ELSE [Ran(main, "fetch") EXCEPT !.pc = "generate", !.fetch = "returned",
                                               !.topics = outcome.n]
    /\ UNCHANGED <<trendVars, slugVars, dbVars, fileVars, ad, genVars, retry, lateVars>>

\* STEP 2: generate_multiple_articles
GenerateArticles(outcome) ==
    /\ main.pc = "generate"
    /\ outcome.n <= main.topics
    /\ main' = IF outcome.kind = "raised"
               THEN [Ran(SysExit(1), "generate") EXCEPT !.generate = "raised"]
               ELSE IF IsEmptyList(outcome.n)
               THEN [Ran(SysExit(1), "generate") EXCEPT !.generate = "returned",
                                                        !.articles = outcome.n]
               ELSE [Ran(main, "generate") EXCEPT !.pc = "classify", !.generate = "returned",
                                                  !.articles = outcome.n]
    /\ UNCHANGED <<trendVars, slugVars, dbVars, fileVars, ad, genVars, retry, lateVars>>

\* a step whose exception ends the run with status 1
StepFailedExits(m, step, next) ==
    [m EXCEPT !.pc = "exit", !.exit_status = 1, !.failed = @ \cup {step}]

\* except Exception as e: logger.warning(...) -- the run goes on with the
\* articles it had
StepFailed(m, step, next) == [m EXCEPT !.pc = next, !.failed = @ \cup {step}]

\* STEP 2.5: classify_articles; a failure is logged
ClassifyArticles(ok) ==
    /\ main.pc = "classify"
    /\ main' = IF ok THEN [Ran(main, "classify") EXCEPT !.pc = "images"]
               ELSE StepFailed(Ran(main, "classify"), "classify", "images")
    /\ UNCHANGED <<trendVars, slugVars, dbVars, fileVars, ad, genVars, retry, lateVars>>

\* STEP 2.6: fetch_images_for_articles unless --no-images; a failure is logged
FetchImages(ok) ==
    /\ main.pc = "images"
    /\ main.no_images => ok
    /\ main' = IF main.no_images THEN [main EXCEPT !.pc = "adsense"]
               ELSE IF ok THEN [Ran(main, "images") EXCEPT !.pc = "adsense"]
               ELSE StepFailed(Ran(main, "images"), "images", "adsense")
    /\ UNCHANGED <<trendVars, slugVars, dbVars, fileVars, ad, genVars, retry, lateVars>>

\* STEP 3: optimize_ad_placement on every article unless --no-adsense
\* or the AdSense configuration is invalid; a failure is logged
OptimizeAds(valid_config, ok) ==
    /\ main.pc = "adsense"
    /\ main.no_adsense => valid_config /\ ok
    /\ main' = IF main.no_adsense THEN [main EXCEPT !.pc = "save"]
               ELSE IF ~ok THEN StepFailed(Ran(main, "adsense"), "adsense", "save")
               ELSE IF ~valid_config THEN [main EXCEPT !.pc = "save"]
               ELSE [Ran(main, "adsense") EXCEPT !.pc = "save"]
    /\ UNCHANGED <<trendVars, slugVars, dbVars, fileVars, ad, genVars, retry, lateVars>>

\* STEP 4: save_multiple_articles(articles): the articles are handed to it,
\* outcome.n of them are persisted
SaveMultipleArticles(outcome) ==
    /\ main.pc = "save"
    /\ outcome.n <= main.articles
    /\ main' = IF outcome.kind = "raised"
               THEN [Ran(SysExit(1), "save") EXCEPT !.persisted = outcome.n,
                                                    !.save = "raised",
                                                    !.handed = main.articles]
               ELSE [Ran(main, "save") EXCEPT !.pc = "done", !.exit_status = 0,
                                              !.persisted = outcome.n,
                                              !.save = "returned",
                                              !.handed = main.articles]
    /\ UNCHANGED <<trendVars, slugVars, dbVars, fileVars, ad, genVars, retry, lateVars>>

NextMain ==
    \/ \E ok \in BOOLEAN : ValidateEnvironment(ok)
    \/ \E ok \in BOOLEAN : LoadConfig(ok)
    \/ \E outcome \in ListOutcomes(MaxTopics) : FetchTopics(outcome)
    \/ \E outcome \in ListOutcomes(MaxArticles) : GenerateArticles(outcome)
    \/ \E ok \in BOOLEAN : ClassifyArticles(ok)
    \/ \E ok \in BOOLEAN : FetchImages(ok)
    \/ \E valid_config, ok \in BOOLEAN : OptimizeAds(valid_config, ok)
    \/ \E outcome \in ListOutcomes(MaxArticles) : SaveMultipleArticles(outcome)

\* exit_status -1: the process has not ended
InitMain ==
    /\ main \in [pc : {"validate"}, no_images : BOOLEAN, no_adsense : BOOLEAN,
                 fetch : {"pending"}, generate : {"pending"}, topics : {0},
                 articles : {0}, steps : {<<>>}, exit_status : {-1}, persisted : {0},
                 failed : {{}}, save : {"pending"}, handed : {0}]
    /\ TrendOff
    /\ SlugOff
    /\ DbOff
    /\ FilesOff
    /\ ad = "off"
    /\ GenOff
    /\ retry = "off"
    /\ LateOff

SpecMain == InitMain /\ [][NextMain]_vars

(***************************************************************************)
(* Properties of main.                                                     *)
(***************************************************************************)
ZeroTopics == main.fetch = "returned" /\ main.topics = 0

ZeroArticles == main.generate = "returned" /\ main.articles = 0

\* C20: when trend fetching returns zero topics or article generation
\* returns zero articles, main exits with status 1, none of the later
\* steps (classification, image fetch, ad insertion, save) is run and
\* nothing is persisted in the run.
C20_FatalConditionsExit ==
    (ZeroTopics \/ ZeroArticles) =>
        /\ main.pc = "exit"
        /\ main.exit_status = 1
        /\ Range(main.steps) \cap LaterSteps = {}
        /\ main.persisted = 0
        /\ ZeroTopics => "generate" \notin Range(main.steps)
        /\ ~ENABLED NextMain

\* topics were fetched, no article came out, and the run ended with 1
C20_Witness ==
    /\ main.fetch = "returned"
    /\ main.topics > 0
    /\ ZeroArticles
    /\ main.exit_status = 1

\* the steps whose failure the pipeline rides out
DegradableSteps == {"classify", "images", "adsense"}

\* C21: once at least one article has been generated, an exception of the
\* category verification step, of the image step or of the ad insertion
\* step never ends the run and never causes a non-zero exit: the run goes
\* on, any exit with status 1 after it comes from the save step, and the
\* save step is executed with all generated articles.
C21_GracefulDegradation ==
    (main.generate = "returned" /\ main.articles >= 1 /\ main.failed # {}) =>
        /\ main.failed \subseteq DegradableSteps
        /\ main.pc \notin {"done", "exit"} => ENABLED NextMain
        /\ main.pc = "exit" => main.save = "raised"
        /\ main.exit_status = 1 => main.save = "raised"
        /\ main.pc \in {"done", "exit"} =>
              /\ "save" \in Range(main.steps)
              /\ main.handed = main.articles

\* the three steps failed one after the other and the run ended with 0
C21_Witness ==
    /\ main.pc = "done"
    /\ main.exit_status = 0
    /\ main.failed = DegradableSteps
    /\ main.handed = main.articles
    /\ main.articles >= 2
    /\ main.persisted = main.articles

(***************************************************************************)
(* reclassify.py: _parse_category, classify_article, classify_articles.    *)
(***************************************************************************)
CatAI == <<"A", "I">>
CatBizIt == <<"B", "I", "Z", " ", "&", " ", "I", "T">>
CatTech == <<"T", "E", "C", "H">>

VALID_CATEGORIES ==
    {CatAI, CatBizIt, <<"C", "A", "R", "S">>, <<"C", "U", "L", "T", "U", "R", "E">>,
     <<"G", "A", "M", "I", "N", "G">>, <<"H", "E", "A", "L", "T", "H">>,
     <<"P", "O", "L", "I", "C", "Y">>, <<"S", "C", "I", "E", "N", "C", "E">>,
     <<"S", "E", "C", "U", "R", "I", "T", "Y">>, <<"S", "P", "A", "C", "E">>, CatTech}

Biz == <<"B", "I", "Z">>

\* a category parsed without the membership test
parse_category_unchecked(text, fallback) ==
    LET category == Upper(Strip(text))
    IN  IF IsSubstring(Biz, category) THEN CatBizIt ELSE category

\* _parse_category(text, fallback)
parse_category(text, fallback) ==
    LET category == Upper(Strip(text))
        mapped == IF IsSubstring(Biz, category) THEN CatBizIt ELSE category
    IN  IF mapped \in VALID_CATEGORIES THEN mapped ELSE fallback

\* str.split('\n')
RECURSIVE SplitLines(_)
SplitLines(s) ==
    LET breaks == {i \in 1..Len(s) : s[i] = "\n"}
        first == CHOOSE i \in breaks : \A j \in breaks : i <= j
    IN  IF breaks = {} THEN <<s>>
        ELSE <<SubSeq(s, 1, first - 1)>> \o SplitLines(SubSeq(s, first + 1, Len(s)))

\* '\n'.join(lines)
RECURSIVE JoinLines(_)
JoinLines(lines) ==
    IF lines = <<>> THEN <<>>
    ELSE IF Len(lines) = 1 THEN lines[1]
    ELSE lines[1] \o <<"\n">> \o JoinLines(Tail(lines))

\* str.startswith
StartsWith(s, prefix) == Len(s) >= Len(prefix) /\ SubSeq(s, 1, Len(prefix)) = prefix

LoadedCached == <<"L", "o", "a", "d", "e", "d", " ", "c", "a", "c", "h", "e", "d">>
HookRegistry == <<"H", "o", "o", "k", " ", "r", "e", "g", "i", "s", "t", "r", "y">>

\* the lines of the CLI's output that are not its own notices
CliReply(stdout) ==
    LET IsReply(l) == ~StartsWith(l, LoadedCached) /\ ~StartsWith(l, HookRegistry)
    IN  JoinLines(SelectSeq(SplitLines(Strip(stdout)), IsReply))

\* the texts a provider replies with
ReplyTexts ==
    {CatAI,
     <<" ", "t", "e", "c", "h", "\n">>,
     <<"S", "p", "a", "c", "e">>,
     <<"S", "p", "o", "r", "t", "s">>,
     <<"b", "i", "z">>,
     <<"B", "i", "z", "a", "r", "r", "e">>,
     <<"B", "I", "Z", " ", "&", " ", "I", "T">>,
     <<"A", "I", ".">>,
     <<>>}

\* what the CLI prints: a reply, possibly after one of its notices
CliOutputs ==
    ReplyTexts \cup {LoadedCached \o <<"\n">> \o <<"b", "i", "z">>,
                     HookRegistry \o <<"\n">> \o <<"S", "p", "o", "r", "t", "s">>}

\* resp.text, or an exception of the API call
ApiOutcomes ==
    [kind : {"text"}, text : ReplyTexts] \cup {[kind |-> "raised", text |-> <<>>]}

\* the finished subprocess, or an exception (such as TimeoutExpired)
CliOutcomes ==
    [kind : {"finished"}, returncode : {0, 1}, stdout : CliOutputs]
        \cup {[kind |-> "raised", returncode |-> 1, stdout |-> <<>>]}

\* the topics articles arrive with: valid categories, a topic of the
\* trend source that is no category, and no topic at all
ArticleTopics ==
    [has_topic : {TRUE}, topic : {CatAI, CatTech, <<"t", "e", "c", "h", "n", "o", "l", "o", "g", "y">>}]
        \cup {[has_topic |-> FALSE, topic |-> <<>>]}

MaxClassified == 1

ClassifyInputs == UNION {[1..n -> ArticleTopics] : n \in 1..MaxClassified}

\* article.get('topic', 'TECH')
GetTopic(article) == IF article.has_topic THEN article.topic ELSE CatTech

\* classify_article(article): the category and the providers consulted
classify_article(article, has_api, has_cli, api, cli) ==
    LET fallback == GetTopic(article)
        api_replied == has_api /\ api.kind = "text"
        cli_called == ~api_replied /\ has_cli
        cli_replied == cli_called /\ cli.kind = "finished" /\ cli.returncode = 0
    IN  [category |-> IF api_replied THEN parse_category(api.text, fallback)
                      ELSE IF cli_replied
                           THEN parse_category(CliReply(cli.stdout), fallback)
                           ELSE fallback,
         api_called |-> has_api,
         cli_called |-> cli_called,
         replied |-> api_replied \/ cli_replied,
         reply |-> IF api_replied THEN api.text
                   ELSE IF cli_replied THEN CliReply(cli.stdout) ELSE <<>>]

\* one turn of the loop of classify_articles
ClassifyOne(api, cli) ==
    /\ cls.pc = "loop"
    /\ cls.i <= Len(cls.articles)
    /\ (~cls.has_api => api.kind = "raised")
    /\ ((~cls.has_cli \/ (cls.has_api /\ api.kind = "text")) => cli.kind = "raised")
    /\ LET article == cls.articles[cls.i]
           old_cat == GetTopic(article)
           r == classify_article(article, cls.has_api, cls.has_cli, api, cli)
           new_cat == r.category
       IN  cls' = [cls EXCEPT
                     !.articles[cls.i] =
                         IF new_cat # old_cat
                         THEN [has_topic |-> TRUE, topic |-> new_cat]
                         ELSE article,
                     !.i = @ + 1,
                     !.log = Append(@, [before |-> article, old_cat |-> old_cat,
                                        result |-> r])]
    /\ UNCHANGED <<trendVars, slugVars, dbVars, earlyVars, sm, img, sched>>

\* return articles
ClassifyReturn ==
    /\ cls.pc = "loop"
    /\ cls.i > Len(cls.articles)
    /\ cls' = [cls EXCEPT !.pc = "done"]
    /\ UNCHANGED <<trendVars, slugVars, dbVars, earlyVars, sm, img, sched>>

NextClassify ==
    \/ \E api \in ApiOutcomes, cli \in CliOutcomes : ClassifyOne(api, cli)
    \/ ClassifyReturn

InitClassify ==
    /\ cls \in [pc : {"loop"}, articles : ClassifyInputs, i : {1}, log : {<<>>},
                has_api : BOOLEAN, has_cli : BOOLEAN]
    /\ TrendOff
    /\ SlugOff
    /\ DbOff
    /\ FilesOff
    /\ ad = "off"
    /\ GenOff
    /\ retry = "off"
    /\ main = "off"
    /\ sm = "off"
    /\ img = "off"
    /\ sched = "off"

SpecClassify == InitClassify /\ [][NextClassify]_vars

\* the category a reply names: trimmed, in upper case, and BIZ & IT for
\* every reply that contains BIZ
NamedCategory(reply) ==
    LET category == Upper(Strip(reply))
    IN  IF IsSubstring(Biz, category) THEN CatBizIt ELSE category

\* C24: classify_article returns the article's prior category whenever
\* both providers fail or the category the reply names (the reply trimmed
\* and in upper case, BIZ & IT for every reply containing BIZ) is not one
\* of the valid categories; classify_articles changes a topic only to a
\* value of VALID_CATEGORIES, and a topic that was a valid category is a
\* valid category afterwards.
C24_FailsOpen ==
    \A k \in 1..Len(cls.log) :
            LET e == cls.log[k]
                after == cls.articles[k]
            IN  /\ (~e.result.replied \/ NamedCategory(e.result.reply) \notin VALID_CATEGORIES)
                       => e.result.category = e.old_cat /\ after = e.before
                /\ (e.result.replied /\ NamedCategory(e.result.reply) \in VALID_CATEGORIES)
                       => e.result.category = NamedCategory(e.result.reply)
                /\ after # e.before => after.has_topic /\ after.topic \in VALID_CATEGORIES
                /\ (e.before.has_topic /\ e.before.topic \in VALID_CATEGORIES)
                       => after.has_topic /\ after.topic \in VALID_CATEGORIES

\* the API failed, the CLI replied "biz" after one of its notices, and an
\* article of category AI became BIZ & IT
C24_Witness ==
    /\ cls.pc = "done"
    /\ Len(cls.log) = 1
    /\ cls.log[1].before.topic = CatAI
    /\ cls.log[1].result.api_called
    /\ cls.log[1].result.cli_called
    /\ cls.log[1].result.reply = <<"b", "i", "z">>
    /\ cls.articles[1].topic = CatBizIt

\* C24 as stated: the prior category is returned whenever both providers
\* fail or the reply (trimmed, in upper case) is not a valid category
C24_PriorUnlessValidReply ==
    \A k \in 1..Len(cls.log) :
            LET e == cls.log[k]
            IN  (~e.result.replied \/ Upper(Strip(e.result.reply)) \notin VALID_CATEGORIES)
                    => e.result.category = e.old_cat

(***************************************************************************)
(* fetch_images.py: fetch_images_for_articles.                             *)
(***************************************************************************)
\* a key the article dictionary does not have
MissingKey == "<missing>"
ExistingUrl == "https://cdn.example/cover.png"
GeminiUrl == "https://project.supabase.co/storage/v1/object/public/article-images/a.png"
UnsplashUrl == "https://images.unsplash.com/photo-1"

\* the truth value of article.get(key)
Truthy(v) == v \notin {MissingKey, ""}

\* the articles as they arrive: without the key, with an empty value, with
\* an image
ImageArticles ==
    {[featured_image |-> MissingKey, image_attribution |-> MissingKey],
     [featured_image |-> "", image_attribution |-> MissingKey],
     [featured_image |-> ExistingUrl, image_attribution |-> MissingKey],
     [featured_image |-> ExistingUrl, image_attribution |-> "unsplash"]}

MaxImages == 2

ImageInputs == UNION {[1..n -> ImageArticles] : n \in 1..MaxImages}

NoUrl == "None"

\* generate_gemini_image: the public URL of the uploaded image, or None
GeminiOutcomes == {GeminiUrl, NoUrl}

\* fetch_unsplash_image: a photo (whose urls may hold neither 'regular' nor
\* 'small'), None, or an exception it does not catch
UnsplashOutcomes ==
    [kind : {"photo"}, url : {UnsplashUrl, ""}]
        \cup {[kind |-> "none", url |-> ""], [kind |-> "raised", url |-> ""]}

NotQueried == [kind |-> "not called", url |-> ""]

\* the fallback asked before the first provider has answered
FallbackFirst(gemini_url) == TRUE

\* if gemini_url: ... continue  -- the fallback is reached without a URL
FallbackReached(gemini_url) == gemini_url = NoUrl

\* one turn of the loop of fetch_images_for_articles
FetchImageFor(gemini, unsplash) ==
    /\ img.pc = "loop"
    /\ img.i <= Len(img.articles)
    /\ LET article == img.articles[img.i]
           skip == Truthy(article.featured_image)
           fallback == ~skip /\ FallbackReached(gemini)
           last == img.i = Len(img.articles)
       IN  /\ skip => gemini = NoUrl
           /\ (unsplash = NotQueried) <=> ~fallback
           /\ img' =
                [img EXCEPT
                   !.pc = IF fallback /\ unsplash.kind = "raised" THEN "raised" ELSE @,
                   !.i = @ + 1,
                   !.articles[img.i] =
                       IF skip THEN article
                       ELSE IF gemini # NoUrl
                            THEN [featured_image |-> gemini, image_attribution |-> "gemini"]
                       ELSE IF unsplash.kind = "photo"
                            THEN [featured_image |-> unsplash.url,
                                  image_attribution |-> "unsplash"]
                       ELSE article,
                   !.log = Append(@,
                       [before |-> article,
                        gemini |-> gemini,
                        unsplash |-> unsplash,
                        calls |-> IF skip THEN <<>>
                                  ELSE <<"gemini">>
                                       \o (IF fallback THEN <<"unsplash">> ELSE <<>>)
                                       \o (IF fallback /\ unsplash.kind # "raised" /\ ~last
                                           THEN <<"sleep">> ELSE <<>>)])]
    /\ UNCHANGED <<trendVars, slugVars, dbVars, earlyVars, sm, cls, sched>>

\* return articles
FetchImagesReturn ==
    /\ img.pc = "loop"
    /\ img.i > Len(img.articles)
    /\ img' = [img EXCEPT !.pc = "done"]
    /\ UNCHANGED <<trendVars, slugVars, dbVars, earlyVars, sm, cls, sched>>

NextImages ==
    \/ \E gemini \in GeminiOutcomes, unsplash \in UnsplashOutcomes \cup {NotQueried} :
          FetchImageFor(gemini, unsplash)
    \/ FetchImagesReturn

InitImages ==
    /\ img \in [pc : {"loop"}, articles : ImageInputs, i : {1}, log : {<<>>}]
    /\ TrendOff
    /\ SlugOff
    /\ DbOff
    /\ FilesOff
    /\ ad = "off"
    /\ GenOff
    /\ retry = "off"
    /\ main = "off"
    /\ sm = "off"
    /\ cls = "off"
    /\ sched = "off"

SpecImages == InitImages /\ [][NextImages]_vars

\* C23: for each article without a featured image the stock-photo search
\* is queried only after AI image generation returned no URL; the article
\* gets a featured_image exactly when one of the two providers succeeded,
\* and image_attribution.source names that provider; an article that has a
\* featured_image is left unchanged and no provider is called for it.
C23_ImageFallbackChain ==
    \A k \in 1..Len(img.log) :
        LET e == img.log[k]
            after == img.articles[k]
            queried(p) == \E c \in DOMAIN e.calls : e.calls[c] = p
            gemini_ok == queried("gemini") /\ e.gemini # NoUrl
            unsplash_ok == queried("unsplash") /\ e.unsplash.kind = "photo"
        IN  /\ Truthy(e.before.featured_image) => e.calls = <<>> /\ after = e.before
            /\ ~Truthy(e.before.featured_image) =>
                  /\ e.calls # <<>> /\ e.calls[1] = "gemini"
                  /\ queried("unsplash") =>
                        /\ e.gemini = NoUrl
                        /\ e.calls[2] = "unsplash"
                  /\ (after # e.before) <=> (gemini_ok \/ unsplash_ok)
                  /\ gemini_ok => after = [featured_image |-> e.gemini,
                                           image_attribution |-> "gemini"]
                  /\ unsplash_ok => after = [featured_image |-> e.unsplash.url,
                                             image_attribution |-> "unsplash"]
                  /\ ~(gemini_ok /\ unsplash_ok)

\* one article kept its image without a call, the other got the stock
\* photo after AI generation returned nothing
C23_Witness ==
    /\ img.pc = "done"
    /\ Len(img.log) = 2
    /\ img.log[1].before.featured_image = ExistingUrl
    /\ img.log[1].calls = <<>>
    /\ img.log[2].calls = <<"gemini", "unsplash">>
    /\ img.articles[2] = [featured_image |-> UnsplashUrl, image_attribution |-> "unsplash"]

(***************************************************************************)
(* save_article.py: save_multiple_articles.                                *)
(***************************************************************************)
MaxBatch == 2

\* the articles of one run of the pipeline, stamped in the order they were
\* generated; two of the titles have one slug
MultipleBatches(k) ==
    UNION {{b \in [1..n -> [title : ArticleTitles, content : {"<p>one</p>"},
                            timestamp : {StampOf(k + i) : i \in 1..n}]] :
               \A i \in 1..n : b[i].timestamp = StampOf(k + i)} : n \in 1..MaxBatch}

\* save_multiple_articles(articles) is called
SaveMultiple(batch) ==
    /\ sm.pc = "idle"
    /\ sa.pc = "idle"
    /\ Len(saved) + Len(batch) <= MaxSaves
    /\ sm' = [sm EXCEPT !.pc = "loop", !.batch = batch, !.base = Len(saved)]
    /\ UNCHANGED <<trendVars, slugVars, dbVars, fileVars, ad, genVars, retry, main,
                   img, cls, sched>>

\* the article the loop is at
LoopArticle == sm.batch[Len(saved) - sm.base + 1]

LoopDone == Len(saved) - sm.base = Len(sm.batch)

\* file_path = save_article(article, output_dir) for the next article
SaveNext(io) ==
    /\ sm.pc = "loop"
    /\ ~LoopDone
    /\ SaveArticle(LoopArticle, io)
    /\ UNCHANGED <<trendVars, slugVars, ad, genVars, retry, main, lateVars>>

\* save_articles_index(articles, output_dir), with every article of the
\* batch whatever save_article returned for it
UpdateIndex(batch, io) == SaveArticlesIndex(batch, io)

\* the loop is over: the index is updated and the results are returned
SaveMultipleReturn(io) ==
    /\ sm.pc = "loop"
    /\ sa.pc = "idle"
    /\ LoopDone
    /\ UpdateIndex(sm.batch, io)
    /\ sm' = [sm EXCEPT !.pc = "idle", !.returned = @ + 1]
    /\ UNCHANGED <<trendVars, slugVars, dbVars, ad, genVars, retry, main, img, cls, sched>>

NextMultiple ==
    \/ \E batch \in MultipleBatches(Len(saved)) : SaveMultiple(batch)
    \/ \E io \in IoOutcomes : SaveNext(io)
    \/ \E io \in IoOutcomes :
          SaveArticleAfterDb(io) /\ UNCHANGED <<trendVars, slugVars, ad, genVars, retry, main, lateVars>>
    \/ \E o \in Outcomes :
          CheckSlugExists(1, o) /\ UNCHANGED <<trendVars, slugVars, restVars>>
    \/ \E o \in Outcomes, stored \in BOOLEAN :
          CreateArticle(1, o, stored) /\ UNCHANGED <<trendVars, slugVars, restVars>>
    \/ \E o \in Outcomes :
          InsertSource(1, o) /\ UNCHANGED <<trendVars, slugVars, restVars>>
    \/ \E io \in IoOutcomes : SaveMultipleReturn(io)

\* an empty output directory and an empty articles table
InitMultiple ==
    /\ env \in {[KEEP_JSON_BACKUP |-> v] :
                   v \in {EnvUnset, EnvSet(StrTrueUpper), EnvSet(StrFalse)}}
    /\ files = << >>
    /\ sa = [pc |-> "idle", article |-> NoArticle]
    /\ saved = <<>>
    /\ loaded = [done |-> FALSE, articles |-> <<>>]
    /\ index_calls = <<>>
    /\ supabase_enabled \in BOOLEAN
    /\ active = {1}
    /\ articles = <<>>
    /\ trending_sources = <<>>
    /\ proc = [p \in {1} |-> Idle]
    /\ calls = [p \in {1} |-> 0]
    /\ to_save = MaxSaves
    /\ db_log = <<>>
    /\ sm = [pc |-> "idle", batch |-> <<>>, base |-> 0, returned |-> 0]
    /\ TrendOff
    /\ SlugOff
    /\ ad = "off"
    /\ GenOff
    /\ retry = "off"
    /\ main = "off"
    /\ img = "off"
    /\ cls = "off"
    /\ sched = "off"

SpecMultiple == InitMultiple /\ [][NextMultiple]_vars

\* C25: after any sequence of save_articles_index calls, index.json never
\* contains two entries with the same slug.
C25_IndexSlugsDistinct ==
    \A i, j \in DOMAIN IndexEntries(files) :
        i # j => IndexEntries(files)[i].slug # IndexEntries(files)[j].slug

\* C29: after save_multiple_articles, every entry of index.json has a file
\* <slug>.json in the same directory, and the title stored in that file is
\* the title of the entry.
C29_IndexAgreesWithFiles ==
    (sm.pc = "idle" /\ sm.returned > 0) =>
        \A i \in DOMAIN IndexEntries(files) :
            LET e == IndexEntries(files)[i]
            IN  /\ JsonName(e.slug) \in DOMAIN files
                /\ files[JsonName(e.slug)].title = e.title

\* the loop is scheduled until it returns
SpecBatchLive == SpecBatch /\ WF_vars(NextBatch)

\* one step of generate_multiple_articles: the loop examines the next topic
\* of the list, or it has what it needs and returns
BatchStep ==
    \/ /\ gen'.pc = "done"
       /\ gen'.articles = gen.articles
       /\ gen'.topic_index = gen.topic_index
       /\ Len(gen.articles) >= gen.articles_count \/ gen.topic_index = Len(gen.topics)
    \/ /\ gen'.pc = "loop"
       /\ Len(gen.articles) < gen.articles_count
       /\ gen.topic_index < Len(gen.topics)
       /\ gen'.topic_index = gen.topic_index + 1
       /\ gen'.last.topic = gen.topics[gen.topic_index + 1]
       /\ \/ gen'.articles = gen.articles
          \/ /\ Len(gen'.articles) = Len(gen.articles) + 1
             /\ SubSeq(gen'.articles, 1, Len(gen.articles)) = gen.articles
             /\ gen'.articles[Len(gen'.articles)].source_data = gen.topics[gen.topic_index + 1]

\* what holds of the articles collected so far
BatchResult(g) ==
    /\ Len(g.articles) <= g.articles_count
    /\ g.topic_index <= Len(g.topics)
    /\ g.calls + g.skipped = g.topic_index
    /\ \A i \in 1..Len(g.articles) :
          /\ g.articles[i].word_count >= MinWordCount
          /\ \E k \in 1..g.topic_index : g.articles[i].source_data = g.topics[k]

\* C26: generate_multiple_articles terminates after examining each topic at
\* most once in ranked order; it stops as soon as articles_count articles
\* have been accepted or the topics are exhausted; it returns at most
\* articles_count articles, and every returned article has word_count >= 500
\* and carries the trending item it was generated from as source_data.
C26_BatchTerminates ==
    /\ [][gen.pc = "loop" /\ BatchStep /\ BatchResult(gen')]_vars
    /\ <>[](gen.pc = "done")

\* the first topic came to a short article, the next two were accepted, and
\* the articles were returned with all three topics examined
C26_Witness ==
    /\ gen.pc = "done"
    /\ Len(gen.topics) = 3
    /\ gen.topic_index = 3
    /\ Len(gen.articles) = 2
    /\ gen.articles[1].source_data = gen.topics[2]
    /\ gen.articles[2].source_data = gen.topics[3]

\* the article is made of p, h2 and h3 blocks alone, at least three
OnlyParagraphs(doc) ==
    Len(doc) >= 3 /\ \A i \in DOMAIN doc : doc[i].tag \in ParagraphTags

\* the slots of a configuration in the order of their positions
SlotsInOrder(slots) ==
    LET IsConfigured(slot) == slot \in slots
    IN  SelectSeq(<<"header", "in_article", "sidebar">>, IsConfigured)

\* the number of the block right before place i of doc, counted from 0
BlockIndexBefore(doc, i) == Cardinality({j \in 1..(i - 1) : IsBlock(doc[j])}) - 1

\* C27: for an article of n >= 3 blocks among p, h2 and h3 and no list
\* blocks, min(2, n div 4) < n div 2 < floor(0.85 * n) < n; with a client_id
\* and the three slots optimize_ad_placement inserts exactly 3 ads, after 3
\* different blocks, and with fewer slots exactly one ad per configured
\* slot, each right after the block at the index of its slot.
C27_AdIndices ==
    (ad.pc = "done" /\ OnlyParagraphs(ad.article_html) /\ ad.adsense_config.client_id) =>
        LET n == Len(ad.article_html)
            out == ad.optimized_html
            slots == ad.adsense_config.slots
            after_intro == IF n \div 4 < 2 THEN n \div 4 ELSE 2
            mid_content == n \div 2
            before_conclusion == CHOOSE k \in 0..n : 100 * k <= 85 * n /\ 85 * n < 100 * (k + 1)
            IndexOf(slot) == CASE slot = "header" -> after_intro
                               [] slot = "in_article" -> mid_content
                               [] slot = "sidebar" -> before_conclusion
        IN  /\ after_intro < mid_content
            /\ mid_content < before_conclusion
            /\ before_conclusion < n
            /\ Cardinality(AdPlaces(out)) = Cardinality(slots)
            /\ slots = Slots => Cardinality(AdPlaces(out)) = 3
            /\ AdSlotsInOrder(out) = SlotsInOrder(slots)
            /\ Len(out) = n + Cardinality(slots)
            /\ \A i \in AdPlaces(out) :
                  /\ i > 1
                  /\ IsBlock(out[i - 1])
                  /\ BlockIndexBefore(out, i) = IndexOf(out[i].slot)
            /\ SelectSeq(out, IsBlock) = ad.article_html

\* an article of 7 paragraphs got the three ads after its blocks 1, 3 and 5
C27_Witness ==
    /\ ad.pc = "done"
    /\ OnlyParagraphs(ad.article_html)
    /\ Len(ad.article_html) = 7
    /\ ad.adsense_config = [client_id |-> TRUE, slots |-> Slots]
    /\ AdPlaces(ad.optimized_html) = {3, 6, 9}

(***************************************************************************)
(* scheduled_publisher.py: ScheduledPublisher and main.  The clock counts  *)
(* minutes from the construction of the publisher.  The schedule library   *)
(* keeps one job: every().hour.do(job) sets its next run one hour ahead,   *)
(* run_pending() runs it when its time has come and sets the next run one  *)
(* hour after the job returned, removes it when the job returned           *)
(* CancelJob, and lets an exception of the job through.                    *)
(***************************************************************************)
\* timedelta(hours=1), schedule.every().hour
HourMinutes == 60

\* timeout=600
TimeoutMinutes == 10

\* time.sleep(60)
SleepMinutes == 1

\* the longest run of the scheduler in hours
MaxHours == 7

\* --hours
TotalHours == {0, 2, MaxHours}

\* --articles
ArticlesPerRun == {1, 2}

\* subprocess.run of main.py: it exits with status 0 or another status
\* within a minute, it is stopped after 10 minutes, or it raises another
\* exception
RunOutcomes ==
    {[kind |-> "exit", returncode |-> 0, minutes |-> 1],
     [kind |-> "exit", returncode |-> 1, minutes |-> 1],
     [kind |-> "TimeoutExpired", returncode |-> -1, minutes |-> TimeoutMinutes],
     [kind |-> "Exception", returncode |-> -1, minutes |-> 1]}

NoRun == [kind |-> "none", returncode |-> -1, minutes |-> 0]

\* should_continue with the end time still inside the run
should_continue_inclusive(s) == ~(s.clock > s.end_time)

\* should_continue(): current_time >= self.end_time gives False
should_continue(s) == ~(s.clock >= s.end_time)

\* a run counted as successful when it was stopped after 10 minutes as well
IsSuccessOrTimeout(outcome) ==
    \/ outcome.kind = "exit" /\ outcome.returncode = 0
    \/ outcome.kind = "TimeoutExpired"

\* if result.returncode == 0, with no exception of subprocess.run
IsSuccess(outcome) == outcome.kind = "exit" /\ outcome.returncode = 0

\* the statement after the call of generate_article: main goes on to its
\* loop, run_pending goes on to the sleep of the loop
AfterJob(s) == IF s.caller = "main" THEN "loop" ELSE "sleep"

\* generate_article, lines 57-64: CancelJob at once after the end time,
\* else the run begins
JobStart ==
    /\ sched.pc = "job_start"
    /\ sched' =
          IF ~should_continue(sched)
          THEN [sched EXCEPT !.pc = AfterJob(sched),
                             !.returned = "CancelJob",
                             !.scheduled = IF sched.caller = "schedule" THEN FALSE ELSE @]
          ELSE [sched EXCEPT !.pc = "job_run",
                             !.started = @ + 1,
                             !.last_start = [at |-> sched.clock, by |-> sched.caller]]
    /\ UNCHANGED <<trendVars, slugVars, dbVars, earlyVars, sm, img, cls>>

\* generate_article, lines 66-90: the pipeline runs and is counted
JobRun(outcome) ==
    /\ sched.pc = "job_run"
    /\ sched' =
          [sched EXCEPT
             !.pc = "job_end",
             !.clock = @ + outcome.minutes,
             !.successful_runs = IF IsSuccess(outcome) THEN @ + 1 ELSE @,
             !.articles_generated =
                 IF IsSuccess(outcome) THEN @ + sched.articles_per_run ELSE @,
             !.failed_runs = IF IsSuccess(outcome) THEN @ ELSE @ + 1,
             !.finished = @ + 1,
             !.last_outcome = outcome,
             !.late = @ \/ sched.clock + outcome.minutes >= sched.end_time]
    /\ UNCHANGED <<trendVars, slugVars, dbVars, earlyVars, sm, img, cls>>

\* generate_article, lines 92-109: the statistics, and after the end time
\* the final statistics, whose last line reads the name total_hours that
\* is defined nowhere: NameError.  Raised in the call of main it ends the
\* process, raised under run_pending it reaches except Exception of main
JobEnd ==
    /\ sched.pc = "job_end"
    /\ sched' =
          IF ~should_continue(sched)
          THEN [sched EXCEPT
                  !.pc = IF sched.caller = "main" THEN "crashed" ELSE "unexpected error",
                  !.returned = "NameError"]
          ELSE [sched EXCEPT
                  !.pc = AfterJob(sched),
                  !.returned = "None",
                  !.next_run = IF sched.caller = "schedule"
                               THEN sched.clock + HourMinutes ELSE @]
    /\ UNCHANGED <<trendVars, slugVars, dbVars, earlyVars, sm, img, cls>>

\* while publisher.should_continue(), and the report after the loop
LoopCheck ==
    /\ sched.pc = "loop"
    /\ sched' = [sched EXCEPT !.pc = IF should_continue(sched) THEN "pending"
                                     ELSE "completed"]
    /\ UNCHANGED <<trendVars, slugVars, dbVars, earlyVars, sm, img, cls>>

\* schedule.run_pending()
RunPending ==
    /\ sched.pc = "pending"
    /\ sched' = IF sched.scheduled /\ sched.clock >= sched.next_run
                THEN [sched EXCEPT !.pc = "job_start", !.caller = "schedule"]
                ELSE [sched EXCEPT !.pc = "sleep"]
    /\ UNCHANGED <<trendVars, slugVars, dbVars, earlyVars, sm, img, cls>>

\* time.sleep(60)
SleepMinute ==
    /\ sched.pc = "sleep"
    /\ sched' = [sched EXCEPT !.pc = "loop", !.clock = @ + SleepMinutes]
    /\ UNCHANGED <<trendVars, slugVars, dbVars, earlyVars, sm, img, cls>>

NextSched ==
    \/ JobStart
    \/ \E outcome \in RunOutcomes : JobRun(outcome)
    \/ JobEnd
    \/ LoopCheck
    \/ RunPending
    \/ SleepMinute

NoStart == [at |-> -1, by |-> "none"]

\* main after schedule.every().hour.do(publisher.generate_article): with
\* --immediate the job is called at once, else the loop begins
InitSched ==
    /\ \E total_hours \in TotalHours, articles_per_run \in ArticlesPerRun,
          immediate \in BOOLEAN :
          sched = [pc |-> IF immediate THEN "job_start" ELSE "loop",
                   caller |-> "main",
                   clock |-> 0,
                   immediate |-> immediate,
                   total_hours |-> total_hours,
                   articles_per_run |-> articles_per_run,
                   start_time |-> 0,
                   end_time |-> 0 + total_hours * HourMinutes,
                   articles_generated |-> 0,
                   successful_runs |-> 0,
                   failed_runs |-> 0,
                   scheduled |-> TRUE,
                   next_run |-> 0 + HourMinutes,
                   started |-> 0,
                   finished |-> 0,
                   last_start |-> NoStart,
                   last_outcome |-> NoRun,
                   returned |-> "none",
                   late |-> FALSE]
    /\ TrendOff
    /\ SlugOff
    /\ DbOff
    /\ FilesOff
    /\ ad = "off"
    /\ GenOff
    /\ retry = "off"
    /\ main = "off"
    /\ sm = "off"
    /\ img = "off"
    /\ cls = "off"

\* the process keeps running until main returns or an exception ends it
SpecSched == InitSched /\ [][NextSched]_vars /\ WF_vars(NextSched)

SchedulerStopped == sched.pc \in {"completed", "unexpected error", "crashed"}

\* C22: ScheduledPublisher never starts a pipeline run at or after end_time
\* (start time plus total_hours); a run begins at least one hour after the
\* run before it, the immediate first run apart; and once the clock has
\* reached end_time no further run starts and the scheduler loop stops.
C22_BoundedDuration ==
    /\ [][/\ sched'.end_time = sched'.start_time + sched'.total_hours * HourMinutes
          /\ sched'.started > sched.started =>
                /\ sched.clock < sched.end_time
                /\ sched'.started = sched.started + 1
                /\ sched.last_start.by = "schedule" =>
                      sched.clock >= sched.last_start.at + HourMinutes
                /\ sched.last_start.by = "main" => sched.started = 1
          /\ sched.clock >= sched.end_time =>
                /\ sched'.started = sched.started
                /\ sched.pc = "loop" => sched'.pc = "completed"
                /\ sched'.pc \notin {"pending", "job_run"}]_vars
    /\ <>[]SchedulerStopped

\* with --immediate and --hours 2 a run began at once, the next one an hour
\* later, and the loop ended when the clock reached the end time
C22_Witness ==
    /\ sched.pc = "completed"
    /\ sched.immediate
    /\ sched.total_hours = 2
    /\ sched.started = 2
    /\ sched.finished = 2
    /\ sched.last_start = [at |-> HourMinutes, by |-> "schedule"]
    /\ sched.clock = sched.end_time

\* C28: when a scheduled run finishes at or after end_time, generate_article
\* returns CancelJob, and the main loop leaves its loop and reports that the
\* scheduler completed successfully, not an unexpected error.
C28_FinishesCleanly ==
    (sched.late /\ sched.pc # "job_end") =>
        /\ sched.returned = "CancelJob"
        /\ sched.pc \notin {"unexpected error", "crashed"}

\* C30: successful_runs + failed_runs is the number of pipeline runs that
\* were started and have finished, articles_generated is successful_runs *
\* articles_per_run, and a run that exits non-zero, times out after 10
\* minutes or raises adds one to failed_runs only.
C30_Counters ==
    [][/\ sched'.successful_runs + sched'.failed_runs = sched'.finished
       /\ sched'.articles_generated = sched'.successful_runs * sched'.articles_per_run
       /\ sched'.started - sched'.finished = (IF sched'.pc = "job_run" THEN 1 ELSE 0)
       /\ sched'.finished > sched.finished =>
             LET o == sched'.last_outcome
                 failed == \/ o.kind = "exit" /\ o.returncode # 0
                           \/ o.kind = "TimeoutExpired"
                           \/ o.kind = "Exception"
             IN  /\ sched'.finished = sched.finished + 1
                 /\ failed =>
                       /\ sched'.failed_runs = sched.failed_runs + 1
                       /\ sched'.successful_runs = sched.successful_runs
                       /\ sched'.articles_generated = sched.articles_generated
                 /\ ~failed =>
                       /\ sched'.failed_runs = sched.failed_runs
                       /\ sched'.successful_runs = sched.successful_runs + 1
                       /\ sched'.articles_generated =
                              sched.articles_generated + sched.articles_per_run
       /\ sched'.finished = sched.finished =>
             /\ sched'.failed_runs = sched.failed_runs
             /\ sched'.successful_runs = sched.successful_runs
             /\ sched'.articles_generated = sched.articles_generated]_vars

\* a run of two articles succeeded, one raised and one timed out
C30_Witness ==
    /\ sched.articles_per_run = 2
    /\ sched.successful_runs = 1
    /\ sched.failed_runs = 2
    /\ sched.articles_generated = 2
    /\ sched.finished = 3
    /\ sched.last_outcome.kind = "TimeoutExpired"

=============================================================================
